---- MODULE Spec2Model ----
(***************************************************************************)
(* KE-Origin: the embedding-backed vector index.                           *)
(*                                                                         *)
(*   lib/indexStore.ts  (src/unnamed/part_001)  the JSON-backed index and  *)
(*                      its process-wide cache, over lib/driveClient.ts    *)
(*   lib/embeddings.ts  (src/unnamed/part_000)  embedBatch / withRetries   *)
(*   lib/schemas.ts     (src/unnamed/part_000)  zEmbeddingRecord           *)
(*                                                                         *)
(* An async function is modelled as a sequence of atomic steps, one per    *)
(* synchronous segment between two awaits; pc[p] is the position of caller *)
(* p.  Timestamps are integers drawn from a clock; a vector norm is        *)
(* represented by its square (sqrt is monotonic, and the code only tests   *)
(* the norm against zero and multiplies it).                               *)
(***************************************************************************)
EXTENDS Integers, Sequences, FiniteSets, TLC

\* ------------------------------------------------------------------ bounds
MaxOps == 3          \* index calls issued in one behaviour
MaxSave == 2         \* longest record list handed to saveIndex
MaxClock == 2        \* distinct instants nowIso can return
MaxScriptOps == 4    \* index calls a script issues in one behaviour

Callers == {"c1", "c2"}

\* ------------------------------------------------------- schemas (records)
EMBEDDING_RECORD_SCHEMA_VERSION == 1
EMBEDDING_INDEX_SCHEMA_VERSION == 1

EmbeddingSourceTypeLiteral == {"knowledgeNode", "conversationLog", "documentChunk"}

\* A raw record as a caller or the store may hand it over.  schemaVersion is
\* a set: {} when the key is missing, {n} otherwise; extra says whether the
\* object carries a key zEmbeddingRecord does not know.
Mk(id, st, sid, vec) ==
  [id |-> id, schemaVersion |-> {1}, sourceType |-> st, sourceId |-> sid,
   vector |-> vec, createdAt |-> "iso", extra |-> FALSE]

rA1 == Mk("a", "knowledgeNode", "n1", <<1, 0>>)
rB2 == Mk("b", "conversationLog", "n1", <<0, 1>>)
rA2 == Mk("a", "conversationLog", "n1", <<2>>)
rB1 == Mk("b", "knowledgeNode", "n1", <<0, 0>>)
rA1extra == [rA1 EXCEPT !.extra = TRUE]
rB2nover == [rB2 EXCEPT !.schemaVersion = {}]
rNoVector == Mk("a", "knowledgeNode", "n1", <<>>)
rNoId == Mk("", "documentChunk", "n2", <<1, 0>>)

\* the records of the scripts: three identities, and the vectors [1, 0],
\* [0.9, 0.1] and [0, 1] in tenths (a cosine does not depend on the scale)
rX == Mk("x", "knowledgeNode", "s1", <<10, 0>>)
rY == Mk("y", "knowledgeNode", "s2", <<9, 1>>)
rZ == Mk("z", "documentChunk", "s3", <<0, 10>>)
ScriptRecords == {rX, rY, rZ}

\* what callers hand to addEmbedding, and the records of the lists they
\* hand to saveIndex
AddInputs == {rA1, rB2, rA2, rB1, rNoVector}
SaveRecords == {rA1extra, rB2, rNoId}

RECURSIVE SeqsUpTo(_, _)
SeqsUpTo(S, n) ==
  IF n = 0 THEN {<<>>}
  ELSE LET shorter == SeqsUpTo(S, n - 1)
       IN  shorter \cup {Append(s, x) : s \in {t \in shorter : Len(t) = n - 1}, x \in S}

\* zEmbeddingRecord.safeParse(r).success
zEmbeddingRecordOk(r) ==
  /\ r.id # ""
  /\ \A v \in r.schemaVersion : v >= 0
  /\ r.sourceType \in EmbeddingSourceTypeLiteral
  /\ r.sourceId # ""
  /\ Len(r.vector) >= 1
  /\ r.createdAt = "iso"

\* zEmbeddingRecord.safeParse(r).data: the default is filled in and unknown
\* keys are stripped.
zEmbeddingRecordData(r) ==
  [r EXCEPT !.schemaVersion =
              IF r.schemaVersion = {} THEN {EMBEDDING_RECORD_SCHEMA_VERSION}
              ELSE r.schemaVersion,
            !.extra = FALSE]

\* (mutant) the lower bound of schemaVersion is not checked
zEmbeddingIndexMetaOkAny(raw) == raw.schemaVersion >= 0

\* zEmbeddingIndexMeta.safeParse(raw).success
zEmbeddingIndexMetaOk(raw) == raw.schemaVersion >= 1

RECURSIVE SumSq(_)
SumSq(vec) == IF vec = <<>> THEN 0 ELSE Head(vec) * Head(vec) + SumSq(Tail(vec))

\* computeNorm, as the square of the value the code returns
computeNorm(vec) == SumSq(vec)

buildCachedEmbeddings(records) ==
  [i \in 1..Len(records) |-> [record |-> records[i], norm |-> computeNorm(records[i].vector)]]

\* (mutant) malformed records are kept
SelectValidAll(raws) == [i \in 1..Len(raws) |-> zEmbeddingRecordData(raws[i])]

RECURSIVE SelectValid(_)
SelectValid(raws) ==
  IF raws = <<>> THEN <<>>
  ELSE IF zEmbeddingRecordOk(Head(raws))
       THEN <<zEmbeddingRecordData(Head(raws))>> \o SelectValid(Tail(raws))
       ELSE SelectValid(Tail(raws))

ParseAll(raws) == [i \in 1..Len(raws) |-> zEmbeddingRecordData(raws[i])]

AllValid(raws) == \A i \in 1..Len(raws) : zEmbeddingRecordOk(raws[i])

\* --------------------------------------------------------------- the state
VARIABLES
  drive,       \* the files named embeddings-metadata.json in the Index folder
  indexCache,  \* the module-level cache (NoCache before the first load)
  clock,       \* the last instant nowIso returned
  pc,          \* position of each caller
  call,        \* the public call each caller is in, with its argument
  frame,       \* the locals of that call that live across an await
  outcome,     \* how the caller's call ended
  last,        \* the caller's previous completed call (history)
  atStart,     \* the cache when the caller's call was issued (history)
  opsStarted,  \* calls issued so far
  upsertOnly,  \* the index started empty and only addEmbedding has written (history)
  overlap,     \* some call was issued while another was in flight (history)
  activeCallers,
  script,      \* the caller is a script of src/scripts (fixed in a behaviour)
  trail,       \* the calls the script has completed, oldest first (history)
  \* lib/embeddings.ts: one embedBatch / embedText invocation at a time
  epc,         \* "idle", "call" (a provider call is in flight), "sleep", "done", "failed"
  etexts,      \* the normalized texts of the invocation
  echunk,      \* the inputs of the provider call in hand
  eoffset,     \* i of the chunk loop (0 on the one-shot path)
  eresults,    \* results, and at "done" the value returned
  attempt,     \* withRetries: attempt
  ecalls,      \* provider calls made by the withRetries in hand (history)
  etotal,      \* provider calls made by the invocation (history)
  esleeps,     \* delays slept by the withRetries in hand (history)
  eseen,       \* the failures the withRetries in hand has caught (history)
  ecaught,     \* withRetries: err of the catch block last entered
  eerror,      \* what the invocation threw
  ecount,      \* invocations so far
  eentry,      \* the function the caller invoked: "embedBatch" or "embedText" (history)
  einput,      \* the texts as the caller handed them over (history)
  estarted,    \* the inputs of each callOpenAIEmbeddings started, in order (history)
  einflight,   \* provider calls issued and not yet settled (history)
  ekinds,      \* the kinds of provider response the invocation accepted (history)
  \* api/create-node.ts and api/ingest-document.ts: one invocation at a time
  npc,         \* "idle", "ig_save", "cn_save", "cn_embed", "cn_index", "done"
  nentry,      \* the function invoked: "createNodeInternal" or "ingestDocumentInternal"
  ninput,      \* the request: content (of the node or the summary), createSummaryNode
  nodes,       \* the files of the KnowledgeNodes folder
  nnode,       \* createNodeInternal: node.id ("" before it is built)
  created,     \* how the createNodeInternal in hand ended, and its result
  ingested,    \* how the ingestDocumentInternal in hand ended, and its response
  nembeds,     \* embedText calls of the invocation (history)
  nindexed,    \* addEmbedding calls of the invocation (history)
  ncount,      \* invocations so far
  nstore,      \* the index files when the invocation began (history)
  \* api/relay.ts: one forwardToKEOrigin at a time
  SECRET,      \* process.env.KEORIGIN_SHARED_SECRET is set (fixed in a behaviour)
  rpc,         \* "idle", "fetch", "sleep", "returned", "thrown"
  rop,         \* operation
  rattempt,    \* attempt
  rrequests,   \* requests sent by the call (history)
  rsleeps,     \* delays slept by the call, in order (history)
  rseen,       \* what each request came back with, in order (history)
  rlast,       \* lastError
  rerror,      \* what the call threw
  rcount       \* calls so far

indexVars == <<drive, indexCache, clock, pc, call, frame, outcome, last, atStart,
               opsStarted, upsertOnly, overlap, activeCallers, script, trail>>
embedVars == <<epc, etexts, echunk, eoffset, eresults, attempt, ecalls, etotal,
               esleeps, eseen, ecaught, eerror, ecount, eentry, einput, estarted,
               einflight, ekinds>>
nodeVars == <<npc, nentry, ninput, nodes, nnode, created, ingested, nembeds, nindexed,
              ncount, nstore>>
relayVars == <<SECRET, rpc, rop, rattempt, rrequests, rsleeps, rseen, rlast, rerror,
               rcount>>
apiVars == <<nodeVars, relayVars>>
vars == <<indexVars, embedVars, apiVars>>

NoCache == [populated |-> FALSE]
NoDoc == [schemaVersion |-> 0, createdAt |-> 0, updatedAt |-> 0, records |-> <<>>]
NoCall == [kind |-> "none", records |-> <<>>, queryVector |-> <<>>, topK |-> 0]
NoFrame == [ret |-> "", wret |-> "", target |-> 0, raw |-> NoDoc,
            toWrite |-> NoDoc, file |-> NoDoc, records |-> <<>>, snapshot |-> <<>>,
            ensured |-> NoCache, created |-> FALSE, store |-> <<>>, writes |-> <<>>]
NoOutcome == [status |-> "none", failedAt |-> "", value |-> <<>>]
NoCreated == [ended |-> "none", node |-> "", embeddingStatus |-> "", embeddingError |-> "",
              message |-> ""]
NoIngested == [ended |-> "none", status |-> "", summaryStatus |-> "", indexStatus |-> "",
               summaryNode |-> "", warnings |-> <<>>]
NoLast == [kind |-> "none", records |-> <<>>, status |-> "none", failedAt |-> ""]

CacheRecords(c) ==
  IF c.populated THEN [i \in 1..Len(c.embeddings) |-> c.embeddings[i].record] ELSE <<>>

\* nowIso(): the clock may have advanced since the last reading
nowIso(c) == {t \in {c, c + 1} : t <= MaxClock}

Doc(records, createdAt, updatedAt) ==
  [schemaVersion |-> EMBEDDING_INDEX_SCHEMA_VERSION, createdAt |-> createdAt,
   updatedAt |-> updatedAt, records |-> records]

InitDrives ==
  { <<>>,
    <<Doc(<<>>, 1, 1)>>,
    <<Doc(<<rA1, rB2>>, 1, 1)>>,
    <<Doc(<<rA1, rNoVector, rB2>>, 1, 1)>>,
    <<[Doc(<<rA1>>, 1, 1) EXCEPT !.schemaVersion = 0]>> }

NoErr == [class |-> "none", status |-> 0, codeNum |-> 0, causeCode |-> ""]
NoError == [kind |-> "none", index |-> 0, attempts |-> 0, retryable |-> FALSE]

InitCommon ==
  /\ npc = "idle"
  /\ nentry = ""
  /\ ninput = [content |-> <<>>, createSummaryNode |-> TRUE]
  /\ nodes = <<>>
  /\ nnode = ""
  /\ created = NoCreated
  /\ ingested = NoIngested
  /\ nembeds = 0
  /\ nindexed = 0
  /\ ncount = 0
  /\ nstore = <<>>
  /\ rpc = "idle"
  /\ rop = ""
  /\ rattempt = 0
  /\ rrequests = 0
  /\ rsleeps = <<>>
  /\ rseen = <<>>
  /\ rlast = ""
  /\ rerror = ""
  /\ rcount = 0
  /\ indexCache = NoCache
  /\ clock = 1
  /\ pc = [p \in Callers |-> "idle"]
  /\ call = [p \in Callers |-> NoCall]
  /\ frame = [p \in Callers |-> NoFrame]
  /\ outcome = [p \in Callers |-> NoOutcome]
  /\ last = [p \in Callers |-> NoLast]
  /\ atStart = [p \in Callers |-> NoCache]
  /\ opsStarted = 0
  /\ overlap = FALSE
  /\ trail = <<>>
  /\ ecaught = NoErr
  /\ epc = "idle"
  /\ etexts = <<>>
  /\ echunk = <<>>
  /\ eoffset = 0
  /\ eresults = <<>>
  /\ attempt = 0
  /\ ecalls = 0
  /\ etotal = 0
  /\ esleeps = <<>>
  /\ eseen = {}
  /\ eerror = NoError
  /\ ecount = 0
  /\ eentry = "none"
  /\ einput = <<>>
  /\ estarted = <<>>
  /\ einflight = 0
  /\ ekinds = {}

\* ------------------------------------------------------ steps of the calls
\* (mutant) the cache does not keep createdAt
FileMetaNoCreatedAt(file) ==
  [schemaVersion |-> file.schemaVersion, createdAt |-> 0, updatedAt |-> file.updatedAt]

FileMeta(file) ==
  [schemaVersion |-> file.schemaVersion, createdAt |-> file.createdAt,
   updatedAt |-> file.updatedAt]

Populated(file, records) ==
  [populated |-> TRUE, fileMeta |-> FileMeta(file),
   embeddings |-> buildCachedEmbeddings(records)]

\* (mutant) ensureIndexLoaded reads the store whether or not the cache is
\* populated
EnsureEntryAlways(ret) == "el_find"

\* ensureIndexLoaded up to its first await: it returns at once when the
\* cache is populated, and starts reading the store otherwise.
EnsureEntry(ret) == IF indexCache.populated THEN ret ELSE "el_find"

\* what stays of a frame once the call has ended (history)
Kept(f) ==
  [NoFrame EXCEPT !.snapshot = f.snapshot, !.ensured = f.ensured, !.created = f.created,
                  !.store = f.store, !.writes = f.writes]

\* the call of p ends by throwing
Throw(p, where) ==
  /\ pc' = [pc EXCEPT ![p] = "done"]
  /\ outcome' = [outcome EXCEPT ![p] =
       [status |-> "error", failedAt |-> where, value |-> <<>>]]
  /\ frame' = [frame EXCEPT ![p] = Kept(frame[p])]

\* the call of p returns value
Return(p, value) ==
  /\ pc' = [pc EXCEPT ![p] = "done"]
  /\ outcome' = [outcome EXCEPT ![p] =
       [status |-> "ok", failedAt |-> "", value |-> value]]
  /\ frame' = [frame EXCEPT ![p] = Kept(frame[p])]

\* A caller issues a call when it is in none; of two concurrent callers each
\* issues one call.
Issue(p, kind, recs, queryVector, topK, ret) ==
  /\ p \in activeCallers
  /\ pc[p] \in (IF Cardinality(activeCallers) > 1 THEN {"idle"} ELSE {"idle", "done"})
  /\ opsStarted < (IF script THEN MaxScriptOps ELSE MaxOps)
  /\ opsStarted' = opsStarted + 1
  /\ last' = [last EXCEPT ![p] =
       IF pc[p] = "done"
       THEN [kind |-> call[p].kind, records |-> call[p].records,
             status |-> outcome[p].status, failedAt |-> outcome[p].failedAt]
       ELSE @]
  /\ call' = [call EXCEPT ![p] =
       [kind |-> kind, records |-> recs, queryVector |-> queryVector, topK |-> topK]]
  /\ frame' = [frame EXCEPT ![p] =
       [NoFrame EXCEPT !.ret = ret, !.records = recs, !.ensured = indexCache,
                       !.store = drive]]
  /\ trail' = IF script /\ pc[p] = "done"
              THEN Append(trail, [kind |-> call[p].kind, records |-> call[p].records,
                                  status |-> outcome[p].status,
                                  snapshot |-> frame[p].snapshot])
              ELSE trail
  /\ pc' = [pc EXCEPT ![p] = EnsureEntry(ret)]
  /\ atStart' = [atStart EXCEPT ![p] = indexCache]
  /\ outcome' = [outcome EXCEPT ![p] = NoOutcome]
  /\ upsertOnly' = (upsertOnly /\ kind # "saveIndex")
  /\ overlap' = (overlap \/ \E q \in Callers \ {p} : pc[q] \notin {"idle", "done"})
  /\ UNCHANGED <<drive, indexCache, clock, activeCallers, script>>
  /\ UNCHANGED embedVars

\* With one caller the inputs range over all of AddInputs and SaveRecords;
\* with two concurrent callers they are cut down to two records of
\* different identity, which is what the races are about.
Concurrent == Cardinality(activeCallers) > 1
AddChoices ==
  IF script THEN ScriptRecords ELSE IF Concurrent THEN {rA1, rB2} ELSE AddInputs
SaveInputs ==
  IF Concurrent THEN {<<>>, <<rB2nover>>} ELSE SeqsUpTo(SaveRecords, MaxSave)

\* checkIndexRoundTrip, step 3: mid.filter((r) => r?.id !== record.id)
Cleaned(mid, id) ==
  LET Other(r) == r.id # id
  IN  SelectSeq(mid, Other)

\* checkIndexRoundTrip: the script hands saveIndex the list it has just
\* loaded, less the record it added before loading
ScriptSaveInputs(p) ==
  IF /\ pc[p] = "done"
     /\ call[p].kind = "loadIndex"
     /\ outcome[p].status = "ok"
     /\ last[p].kind = "addEmbedding"
     /\ last[p].status = "ok"
  THEN {Cleaned(outcome[p].value, last[p].records[1].id)}
  ELSE {}

\* loadIndex(), line 294
CallLoadIndex(p) ==
  Issue(p, "loadIndex", <<>>, <<>>, 0, "li_body") /\ UNCHANGED apiVars

\* saveIndex(records), line 308
CallSaveIndex(p) ==
  \E recs \in (IF script THEN ScriptSaveInputs(p) ELSE SaveInputs) :
    Issue(p, "saveIndex", recs, <<>>, 0, "sv_body") /\ UNCHANGED apiVars

\* addEmbedding(record), line 366
CallAddEmbedding(p) ==
  \E r \in AddChoices :
    Issue(p, "addEmbedding", <<r>>, <<>>, 0, "ae_body") /\ UNCHANGED apiVars

\* what callers hand to search: queryVector and topK
SearchInput(queryVector, topK) == [queryVector |-> queryVector, topK |-> topK]
SearchInputs ==
  { SearchInput(<<>>, 1), SearchInput(<<0, 0>>, 1), SearchInput(<<1>>, 1),
    SearchInput(<<1, 0>>, 2), SearchInput(<<1, 0>>, 0) }
ScriptSearchInputs == {SearchInput(<<1, 0>>, 2), SearchInput(<<9, 1>>, 1)}
SearchChoices ==
  IF script THEN ScriptSearchInputs
  ELSE IF Concurrent THEN {SearchInput(<<1, 0>>, 1)} ELSE SearchInputs

\* search(queryVector, topK), line 431
CallSearch(p) ==
  \E s \in SearchChoices :
    Issue(p, "search", <<>>, s.queryVector, s.topK, "se_body") /\ UNCHANGED apiVars

Step(p) ==
  UNCHANGED <<call, last, atStart, opsStarted, upsertOnly, overlap, activeCallers,
              script, trail, embedVars, apiVars>>

\* (mutant) the cache is assigned before the first empty index is saved
CacheBeforeInitEager(cache, empty) == Populated(empty, <<>>)

\* the cache while the write of the first empty index is in flight: line 253
\* comes after the await of line 251, so it is still unset
CacheBeforeInit(cache, empty) == cache

\* readJson -> downloadJsonFile -> findFileInFolderByName
ElFind(p) ==
  /\ pc[p] = "el_find"
  /\ Step(p)
  /\ \/ /\ UNCHANGED <<drive, indexCache, clock>>
        /\ Throw(p, "read")
     \/ \* no file: ensureIndexLoaded builds the empty index and saves it
        /\ drive = <<>>
        /\ \E now \in nowIso(clock) : \E updatedAt \in nowIso(now) :
             /\ clock' = updatedAt
             /\ frame' = [frame EXCEPT ![p].file = Doc(<<>>, now, now),
                                       ![p].toWrite = Doc(<<>>, now, updatedAt),
                                       ![p].wret = "el_init",
                                       ![p].created = TRUE]
             /\ indexCache' = CacheBeforeInit(indexCache, Doc(<<>>, now, now))
        /\ pc' = [pc EXCEPT ![p] = "w_find"]
        /\ UNCHANGED <<drive, outcome>>
     \/ \E k \in 1..Len(drive) :
        /\ frame' = [frame EXCEPT ![p].target = k]
        /\ pc' = [pc EXCEPT ![p] = "el_get"]
        /\ UNCHANGED <<drive, indexCache, clock, outcome>>

\* downloadJsonFile: drive.files.get
ElGet(p) ==
  /\ pc[p] = "el_get"
  /\ Step(p)
  /\ UNCHANGED <<drive, indexCache, clock>>
  /\ \/ Throw(p, "read")
     \/ /\ frame' = [frame EXCEPT ![p].raw = drive[frame[p].target]]
        /\ pc' = [pc EXCEPT ![p] = "el_populate"]
        /\ UNCHANGED outcome

\* loadIndexFileFromDrive after the download, then ensureIndexLoaded
ElPopulate(p) ==
  /\ pc[p] = "el_populate"
  /\ Step(p)
  /\ UNCHANGED <<drive, clock>>
  /\ LET raw == frame[p].raw
     IN  IF ~zEmbeddingIndexMetaOk(raw)
         THEN /\ UNCHANGED indexCache
              /\ Throw(p, "corrupt")
         ELSE /\ indexCache' = Populated(raw, SelectValid(raw.records))
              /\ frame' = [frame EXCEPT ![p].raw = NoDoc, ![p].target = 0,
                                        ![p].ensured = indexCache']
              /\ pc' = [pc EXCEPT ![p] = frame[p].ret]
              /\ UNCHANGED outcome

\* ensureIndexLoaded once the empty index has been saved
ElInit(p) ==
  /\ pc[p] = "el_init"
  /\ Step(p)
  /\ UNCHANGED <<drive, clock, outcome>>
  /\ indexCache' = Populated(frame[p].file, <<>>)
  /\ frame' = [frame EXCEPT ![p].file = NoDoc, ![p].toWrite = NoDoc, ![p].wret = "",
                            ![p].ensured = indexCache']
  /\ pc' = [pc EXCEPT ![p] = frame[p].ret]

\* which write failed: that of the first empty index, or that of saveIndex
WriteOf(f) == IF f.wret = "el_init" THEN "init" ELSE "write"

\* saveJson -> createOrUpdateJsonFile: findFileInFolderByName
WFind(p) ==
  /\ pc[p] = "w_find"
  /\ Step(p)
  /\ UNCHANGED <<drive, indexCache, clock>>
  /\ \/ Throw(p, WriteOf(frame[p]))
     \/ \E k \in (IF drive = <<>> THEN {0} ELSE 1..Len(drive)) :
        /\ frame' = [frame EXCEPT ![p].target = k]
        /\ pc' = [pc EXCEPT ![p] = "w_write"]
        /\ UNCHANGED outcome

\* (mutant) an update patches the stored document instead of replacing it
WrittenMerged(files, target, toWrite) ==
  IF target = 0 THEN Append(files, toWrite)
  ELSE [files EXCEPT ![target] =
          [toWrite EXCEPT !.records = files[target].records \o toWrite.records]]

\* (mutant) the write is acknowledged and nothing is stored
WrittenDropped(files, target, toWrite) == files

\* the document the store holds after the write
Written(files, target, toWrite) ==
  IF target = 0 THEN Append(files, toWrite) ELSE [files EXCEPT ![target] = toWrite]

\* createOrUpdateJsonFile: drive.files.update or drive.files.create
WWrite(p) ==
  /\ pc[p] = "w_write"
  /\ Step(p)
  /\ UNCHANGED <<indexCache, clock>>
  /\ \/ /\ UNCHANGED drive
        /\ Throw(p, WriteOf(frame[p]))
     \/ /\ drive' = Written(drive, frame[p].target, frame[p].toWrite)
        /\ frame' = [frame EXCEPT
             ![p].target = 0,
             ![p].writes = Append(@, [of |-> WriteOf(frame[p]),
                                      records |-> frame[p].toWrite.records])]
        /\ pc' = [pc EXCEPT ![p] = frame[p].wret]
        /\ UNCHANGED outcome

LiBody(p) ==
  /\ pc[p] = "li_body"
  /\ Step(p)
  /\ UNCHANGED <<drive, indexCache, clock>>
  /\ Return(p, CacheRecords(indexCache))

\* what saveIndex keeps of its argument
Validated(records) == ParseAll(records)

\* (mutant) the cache is swapped before the write is awaited
CacheBeforeWriteEager(cache, validatedRecords) ==
  [cache EXCEPT !.embeddings = buildCachedEmbeddings(validatedRecords)]

\* the cache while the write of saveIndex is in flight: line 345 comes after
\* the await of line 342, so it is still the old one
CacheBeforeWrite(cache, validatedRecords) == cache

\* saveIndex, lines 313-342, and saveIndexFileToDrive up to its await
SvBody(p) ==
  /\ pc[p] = "sv_body"
  /\ Step(p)
  /\ UNCHANGED drive
  /\ indexCache' = CacheBeforeWrite(indexCache, Validated(frame[p].records))
  /\ LET records == frame[p].records
         cached == indexCache.fileMeta.createdAt
     IN  \E t0 \in (IF cached # 0 THEN {clock} ELSE nowIso(clock)) :
         \E t1 \in nowIso(t0) :
           LET createdAt == IF cached # 0 THEN cached ELSE t0
           IN  IF ~AllValid(records)
               THEN /\ clock' = t1
                    /\ Throw(p, "validation")
               ELSE \E t2 \in nowIso(t1) :
                    /\ clock' = t2
                    /\ frame' = [frame EXCEPT
                         ![p].file = Doc(Validated(records), createdAt, t1),
                         ![p].toWrite = Doc(Validated(records), createdAt, t2),
                         ![p].wret = "sv_swap"]
                    /\ pc' = [pc EXCEPT ![p] = "w_find"]
                    /\ UNCHANGED outcome

\* (mutant) saveIndex leaves the cache as it was
SwappedStale(file) == indexCache

\* (mutant) an entry keeps the norm the cache held at its position
SwappedKeepNorms(file) ==
  [populated |-> TRUE, fileMeta |-> FileMeta(file),
   embeddings |->
     [i \in 1..Len(file.records) |->
        [record |-> file.records[i],
         norm |-> IF indexCache.populated /\ i <= Len(indexCache.embeddings)
                  THEN indexCache.embeddings[i].norm
                  ELSE computeNorm(file.records[i].vector)]]]

\* the cache saveIndex installs once the write has returned
Swapped(file) == Populated(file, file.records)

\* saveIndex, lines 344-353
SvSwap(p) ==
  /\ pc[p] = "sv_swap"
  /\ Step(p)
  /\ UNCHANGED <<drive, clock>>
  /\ indexCache' = Swapped(frame[p].file)
  /\ Return(p, <<>>)

Matches(r, v) ==
  r.id = v.id \/ (r.sourceType = v.sourceType /\ r.sourceId = v.sourceId)

\* (mutant) a record that matches nothing is not pushed
UpsertNoPush(records, v) ==
  LET hits == {i \in 1..Len(records) : Matches(records[i], v)}
  IN  IF hits = {} THEN records
      ELSE LET i == CHOOSE k \in hits : \A j \in hits : k <= j
           IN  [records EXCEPT ![i] = v]

\* (mutant) the matching record is taken out and the new one goes to the end
UpsertMoveToEnd(records, v) ==
  LET hits == {i \in 1..Len(records) : Matches(records[i], v)}
  IN  IF hits = {} THEN Append(records, v)
      ELSE LET i == CHOOSE k \in hits : \A j \in hits : k <= j
           IN  Append(SubSeq(records, 1, i - 1) \o SubSeq(records, i + 1, Len(records)), v)

\* (mutant) only the upserted record is handed to saveIndex
UpsertPatch(records, v) == <<v>>

\* addEmbedding, lines 390-402: replace the first match, else append
Upsert(records, v) ==
  LET hits == {i \in 1..Len(records) : Matches(records[i], v)}
  IN  IF hits = {} THEN Append(records, v)
      ELSE LET i == CHOOSE k \in hits : \A j \in hits : k <= j
           IN  [records EXCEPT ![i] = v]

\* addEmbedding, lines 372-416, up to the await inside saveIndex
AeBody(p) ==
  /\ pc[p] = "ae_body"
  /\ Step(p)
  /\ UNCHANGED <<drive, indexCache, clock>>
  /\ LET record == call[p].records[1]
     IN  IF ~zEmbeddingRecordOk(record)
         THEN Throw(p, "validation")
         ELSE /\ frame' = [frame EXCEPT
                   ![p].snapshot = CacheRecords(indexCache),
                   ![p].records = Upsert(CacheRecords(indexCache), zEmbeddingRecordData(record)),
                   ![p].ret = "sv_body"]
              /\ pc' = [pc EXCEPT ![p] = EnsureEntry("sv_body")]
              /\ UNCHANGED outcome

\* dotProduct(a, b): the loop runs over a; where b is shorter b[i] is
\* undefined and the sum is NaN.  A score is dot / (queryNorm * norm), kept
\* as the dot product and the square of the divisor.
dotProduct(a, b) ==
  LET RECURSIVE Acc(_)
      Acc(i) == IF i = 0 THEN 0 ELSE Acc(i - 1) + a[i] * b[i]
  IN  IF Len(b) < Len(a) THEN [nan |-> TRUE, value |-> 0]
      ELSE [nan |-> FALSE, value |-> Acc(Len(a))]

\* (mutant) the dot product is not divided by the norms
ScoreUnnormalized(queryVector, entry) ==
  LET dot == dotProduct(queryVector, entry.record.vector)
  IN  [nan |-> dot.nan, dot |-> dot.value, den2 |-> 1]

Score(queryVector, entry) ==
  LET dot == dotProduct(queryVector, entry.record.vector)
  IN  [nan |-> dot.nan, dot |-> dot.value,
       den2 |-> computeNorm(queryVector) * entry.norm]

\* (mutant) the comparison is turned round: the sort is ascending
GreaterReversed(s, t) ==
  IF t.dot >= 0 /\ s.dot < 0 THEN TRUE
  ELSE IF t.dot < 0 /\ s.dot >= 0 THEN FALSE
  ELSE IF t.dot >= 0 THEN t.dot * t.dot * s.den2 > s.dot * s.dot * t.den2
  ELSE t.dot * t.dot * s.den2 < s.dot * s.dot * t.den2

\* s > t as real numbers, for scores that are numbers
Greater(s, t) ==
  IF s.dot >= 0 /\ t.dot < 0 THEN TRUE
  ELSE IF s.dot < 0 /\ t.dot >= 0 THEN FALSE
  ELSE IF s.dot >= 0 THEN s.dot * s.dot * t.den2 > t.dot * t.dot * s.den2
  ELSE s.dot * s.dot * t.den2 < t.dot * t.dot * s.den2

\* search, lines 463-476: the entries of nonzero norm, with their scores
RECURSIVE Scored(_, _)
Scored(queryVector, embeddings) ==
  IF embeddings = <<>> THEN <<>>
  ELSE LET entry == Head(embeddings)
           rest == Scored(queryVector, Tail(embeddings))
       IN  IF entry.norm = 0 THEN rest
           ELSE <<[record |-> entry.record, score |-> Score(queryVector, entry)]>> \o rest

RECURSIVE InsertByScore(_, _)
InsertByScore(sorted, x) ==
  IF sorted = <<>> THEN <<x>>
  ELSE IF Greater(x.score, Head(sorted).score) THEN <<x>> \o sorted
  ELSE <<Head(sorted)>> \o InsertByScore(Tail(sorted), x)

\* Array.prototype.sort with (a, b) => b.score - a.score: stable, descending
RECURSIVE SortByScore(_)
SortByScore(scored) ==
  IF scored = <<>> THEN <<>>
  ELSE InsertByScore(SortByScore(SubSeq(scored, 1, Len(scored) - 1)), scored[Len(scored)])

Orderings(seq) ==
  { [i \in 1..Len(seq) |-> seq[f[i]]] :
      f \in {g \in [1..Len(seq) -> 1..Len(seq)] : \A i, j \in 1..Len(seq) : i # j => g[i] # g[j]} }

\* line 479: with a NaN score the comparator is inconsistent and the order
\* sort leaves is implementation-defined
Sorted(scored) ==
  IF \E i \in 1..Len(scored) : scored[i].score.nan
  THEN Orderings(scored)
  ELSE {SortByScore(scored)}

\* line 481: scored.slice(0, Math.max(0, topK))
Limited(scored, topK) ==
  LET n == IF topK < 0 THEN 0 ELSE IF topK > Len(scored) THEN Len(scored) ELSE topK
  IN  SubSeq(scored, 1, n)

\* (mutant) the empty index is not told apart before the dimension check
VerdictNoEmptyReturn(queryVector, embeddings) ==
  IF queryVector = <<>> THEN "emptyQuery"
  ELSE IF embeddings = <<>> THEN "dimension"
  ELSE IF Len(queryVector) # Len(embeddings[1].record.vector) THEN "dimension"
  ELSE IF computeNorm(queryVector) = 0 THEN "zeroNorm"
  ELSE "rank"

\* search, lines 438-460: the checks, in the order the code makes them
Verdict(queryVector, embeddings) ==
  IF queryVector = <<>> THEN "emptyQuery"
  ELSE IF embeddings = <<>> THEN "empty"
  ELSE IF Len(queryVector) # Len(embeddings[1].record.vector) THEN "dimension"
  ELSE IF computeNorm(queryVector) = 0 THEN "zeroNorm"
  ELSE "rank"

\* search, lines 432-494
SeBody(p) ==
  /\ pc[p] = "se_body"
  /\ Step(p)
  /\ UNCHANGED <<drive, indexCache, clock>>
  /\ LET queryVector == call[p].queryVector
         embeddings == indexCache.embeddings
         verdict == Verdict(queryVector, embeddings)
     IN  IF verdict = "empty" THEN Return(p, <<>>)
         ELSE IF verdict # "rank" THEN Throw(p, verdict)
         ELSE \E sorted \in Sorted(Scored(queryVector, embeddings)) :
                Return(p, Limited(sorted, call[p].topK))

IndexNext ==
  \E p \in Callers :
    \/ CallLoadIndex(p)
    \/ CallSaveIndex(p)
    \/ CallAddEmbedding(p)
    \/ CallSearch(p)
    \/ ElFind(p)
    \/ ElGet(p)
    \/ ElPopulate(p)
    \/ ElInit(p)
    \/ WFind(p)
    \/ WWrite(p)
    \/ LiBody(p)
    \/ SvBody(p)
    \/ SvSwap(p)
    \/ AeBody(p)
    \/ SeBody(p)

\* ------------------------------------------------------ lib/embeddings.ts
MAX_BATCH_SIZE == 2       \* 128 in the source; scaled so that chunking happens
MAX_RETRIES == 3
RETRY_BASE_DELAY_MS == 200
MaxTexts == 3             \* longest list handed to embedBatch
MaxEmbeds == 1            \* embedBatch / embedText invocations in one behaviour

\* A text is a sequence of characters; " " is whitespace.
TextInputs == {<<"a">>, <<" ", "b">>, <<" ">>, <<>>}

RECURSIVE TrimStart(_)
TrimStart(t) == IF t # <<>> /\ Head(t) = " " THEN TrimStart(Tail(t)) ELSE t

RECURSIVE TrimEnd(_)
TrimEnd(t) ==
  IF t # <<>> /\ t[Len(t)] = " " THEN TrimEnd(SubSeq(t, 1, Len(t) - 1)) ELSE t

\* String.prototype.trim
Trim(t) == TrimEnd(TrimStart(t))

\* the provider's embedding of an input
ProviderVector(t) == IF t = <<"a">> THEN <<1, 0>> ELSE <<0, 1>>

\* What a rejected provider call throws: status (0: none), code as a number
\* (0: none or not a number), cause.code ("": none); class says what the
\* failure was.
Err(class, status, codeNum, causeCode) ==
  [class |-> class, status |-> status, codeNum |-> codeNum, causeCode |-> causeCode]

ProviderFailures ==
  { Err("http", 429, 0, ""), Err("http", 500, 0, ""), Err("http", 503, 0, ""),
    Err("http", 400, 0, ""), Err("http", 404, 0, ""),
    Err("http", 0, 503, ""),
    Err("timeout", 0, 0, "ETIMEDOUT"),
    Err("timeout", 0, 0, ""),
    Err("connection", 0, 0, "ECONNRESET") }

\* A number that is not finite (NaN, Infinity); the provider's finite numbers
\* are >= 0 here.
NaN == 0 - 1
IsFinite(x) == x >= 0

\* The provider's responses to a call, by what sets them apart: one finite
\* vector per input; data of the wrong length; an item without embedding; an
\* item whose embedding is no array; a vector holding a non-finite number.
ResponseKinds == {"ok", "wrongCount", "missingEmbedding", "notArray", "nonFinite"}

\* callOpenAIEmbeddings, lines 143-157: what the checks of the response throw
ResponseThrows(kind) ==
  IF kind = "wrongCount" THEN Err("lengthMismatch", 0, 0, "")
  ELSE IF kind \in {"missingEmbedding", "notArray"} THEN Err("missingEmbedding", 0, 0, "")
  ELSE NoErr

\* What callOpenAIEmbeddings's own checks throw (lines 143-157)
ResponseFailures == {ResponseThrows(kind) : kind \in ResponseKinds} \ {NoErr}

\* the responses that pass the checks
AcceptedResponses == {kind \in ResponseKinds : ResponseThrows(kind) = NoErr}

\* callOpenAIEmbeddings, lines 152-161: the vectors taken from a response
\* that passed the checks
ResponseVectors(inputs, kind) ==
  [i \in 1..Len(inputs) |->
     LET vec == ProviderVector(inputs[i])
     IN  IF kind = "nonFinite" /\ i = 1
         THEN [j \in 1..Len(vec) |-> IF j = 1 THEN NaN ELSE vec[j]]
         ELSE vec]

\* (mutant) every 4xx status is taken for transient too
isRetryableFrom400(err) ==
  LET status == IF err.status # 0 THEN err.status ELSE err.codeNum
  IN  \/ (status >= 400 /\ status < 600)
      \/ err.causeCode = "ETIMEDOUT"

\* withRetries, lines 91-97
isRetryable(err) ==
  LET status == IF err.status # 0 THEN err.status ELSE err.codeNum
  IN  \/ status = 429
      \/ (status >= 500 /\ status < 600)
      \/ err.causeCode = "ETIMEDOUT"

\* (mutant) the retry budget is one long
GivesUpLate(err, n) == ~isRetryable(err) \/ n > MAX_RETRIES + 1

\* (mutant) the retry budget is one short
GivesUpEarly(err, n) == ~isRetryable(err) \/ n >= MAX_RETRIES

\* withRetries, line 99: give up
GivesUp(err, n) == ~isRetryable(err) \/ n > MAX_RETRIES

RECURSIVE Pow2(_)
Pow2(n) == IF n <= 0 THEN 1 ELSE 2 * Pow2(n - 1)

\* (mutant) the delay grows linearly
DelayLinear(n) == RETRY_BASE_DELAY_MS * n

\* withRetries, line 110
Delay(n) == RETRY_BASE_DELAY_MS * Pow2(n - 1)

\* (mutant) the last blank text is the one reported
LastBlank(texts) ==
  LET blanks == {i \in 1..Len(texts) : Trim(texts[i]) = <<>>}
  IN  IF blanks = {} THEN 0 - 1
      ELSE (CHOOSE k \in blanks : \A j \in blanks : k >= j) - 1

\* the first index whose text is empty after trimming (0-based), or -1
FirstBlank(texts) ==
  LET blanks == {i \in 1..Len(texts) : Trim(texts[i]) = <<>>}
  IN  IF blanks = {} THEN 0 - 1
      ELSE (CHOOSE k \in blanks : \A j \in blanks : k <= j) - 1

Normalized(texts) == [i \in 1..Len(texts) |-> Trim(texts[i])]

Min(a, b) == IF a <= b THEN a ELSE b

\* (mutant) every chunk is sliced from the start of the list
ChunkFirst(texts, i) == SubSeq(texts, 1, Min(Len(texts), MAX_BATCH_SIZE))

\* normalized.slice(i, i + MAX_BATCH_SIZE)
Chunk(texts, i) == SubSeq(texts, i + 1, Min(Len(texts), i + MAX_BATCH_SIZE))

OneShot(texts) == Len(texts) <= MAX_BATCH_SIZE

\* (mutant) the loop advances by one text
NextOffsetByOne(i) == i + 1

\* the loop of embedBatch, line 217: i += MAX_BATCH_SIZE
NextOffset(i) == i + MAX_BATCH_SIZE

\* (mutant) the chunks share one retry budget: attempt is not reset
StartProviderCallSharedBudget(inputs, offset, results) ==
  /\ echunk' = inputs
  /\ eoffset' = offset
  /\ eresults' = results
  /\ attempt' = attempt
  /\ ecalls' = 1
  /\ etotal' = etotal + 1
  /\ esleeps' = <<>>
  /\ eseen' = {}
  /\ ecaught' = NoErr
  /\ estarted' = Append(estarted, inputs)
  /\ einflight' = 1
  /\ epc' = "call"

\* callOpenAIEmbeddings(inputs): a new withRetries, whose first attempt
\* issues the provider call
StartProviderCall(inputs, offset, results) ==
  /\ echunk' = inputs
  /\ eoffset' = offset
  /\ eresults' = results
  /\ attempt' = 0
  /\ ecalls' = 1
  /\ etotal' = etotal + 1
  /\ esleeps' = <<>>
  /\ eseen' = {}
  /\ ecaught' = NoErr
  /\ estarted' = Append(estarted, inputs)
  /\ einflight' = 1
  /\ epc' = "call"

EmbedFails(kind, index, attempts, retryable) ==
  /\ epc' = "failed"
  /\ eerror' = [kind |-> kind, index |-> index, attempts |-> attempts,
                retryable |-> retryable]

\* the lists callers hand to embedBatch
TextLists == SeqsUpTo(TextInputs, MaxTexts)

\* embedBatch, lines 195-208: the list is empty, or one of its texts is empty
\* after trimming
Rejected(texts) == texts = <<>> \/ FirstBlank(texts) >= 0

\* the lists embedBatch goes on with, and those it throws on
AcceptedLists == {texts \in TextLists : ~Rejected(texts)}
RejectedLists == {texts \in TextLists : Rejected(texts)}

\* a caller invokes embedBatch or embedText
Invoked(entry, input) ==
  /\ epc \in {"idle", "done", "failed"}
  /\ ecount < MaxEmbeds
  /\ ecount' = ecount + 1
  /\ eentry' = entry
  /\ einput' = input
  /\ UNCHANGED <<indexVars, apiVars>>

\* the input checks throw before any provider call (lines 175-177, 195-206);
\* index is the idx the message names, -1 when it names none
RejectInput(index) ==
  /\ EmbedFails("validation", index, 0, FALSE)
  /\ etexts' = <<>>
  /\ echunk' = <<>>
  /\ eoffset' = 0
  /\ eresults' = <<>>
  /\ etotal' = 0
  /\ attempt' = 0
  /\ ecalls' = 0
  /\ esleeps' = <<>>
  /\ eseen' = {}
  /\ ecaught' = NoErr
  /\ estarted' = <<>>
  /\ einflight' = 0
  /\ ekinds' = {}

\* embedBatch, lines 200-224, for texts that pass the checks: up to the first
\* provider call
BeginBatch(texts) ==
  LET normalized == Normalized(texts)
      first == IF OneShot(normalized) THEN normalized ELSE Chunk(normalized, 0)
  IN  /\ etexts' = normalized
      /\ etotal' = 1
      /\ eerror' = NoError
      /\ echunk' = first
      /\ eoffset' = 0
      /\ eresults' = <<>>
      /\ attempt' = 0
      /\ ecalls' = 1
      /\ esleeps' = <<>>
      /\ eseen' = {}
      /\ ecaught' = NoErr
      /\ estarted' = <<first>>
      /\ einflight' = 1
      /\ ekinds' = {}
      /\ epc' = "call"

\* embedBatch(texts), lines 195-213 and 216-224, up to the first provider call
EmbedBatchCall ==
  \/ \E texts \in RejectedLists :
       /\ Invoked("embedBatch", texts)
       /\ RejectInput(FirstBlank(texts))
  \/ \E texts \in AcceptedLists :
       /\ Invoked("embedBatch", texts)
       /\ BeginBatch(texts)

\* embedText(text), lines 173-179, up to the first provider call
EmbedTextCall ==
  \E text \in TextInputs :
    /\ Invoked("embedText", <<text>>)
    /\ IF Trim(text) = <<>>
       THEN RejectInput(0 - 1)
       ELSE BeginBatch(<<Trim(text)>>)

\* the provider answers and the response passes the checks: the callback of
\* withRetries returns, then embedBatch goes on (lines 152-161, 225-237)
ProviderAnswers ==
  /\ epc = "call"
  /\ UNCHANGED <<indexVars, apiVars, ecount, etexts, eerror, eentry, einput>>
  /\ \E kind \in AcceptedResponses :
       LET vectors == ResponseVectors(echunk, kind)
           results == eresults \o vectors
           next == NextOffset(eoffset)
       IN  /\ ekinds' = ekinds \cup {kind}
           /\ IF OneShot(etexts) \/ next >= Len(etexts)
              THEN /\ epc' = "done"
                   /\ eresults' = results
                   /\ einflight' = 0
                   /\ UNCHANGED <<echunk, eoffset, attempt, ecalls, etotal, esleeps,
                                  eseen, ecaught, estarted>>
              ELSE StartProviderCall(Chunk(etexts, next), next, results)

\* the provider call is rejected, or its response fails the checks of lines
\* 143-157: the catch block of withRetries, lines 87-116
ProviderFails ==
  /\ epc = "call"
  /\ UNCHANGED <<indexVars, apiVars, ecount, etexts, echunk, eoffset, eresults, ecalls, etotal,
                 eentry, einput, estarted, ekinds>>
  /\ einflight' = 0
  /\ \E err \in ProviderFailures \cup ResponseFailures :
       /\ attempt' = attempt + 1
       /\ eseen' = eseen \cup {err}
       /\ ecaught' = err
       /\ IF GivesUp(err, attempt + 1)
          THEN /\ EmbedFails("provider", 0 - 1, attempt + 1, isRetryable(err))
               /\ UNCHANGED esleeps
          ELSE /\ esleeps' = Append(esleeps, Delay(attempt + 1))
               /\ epc' = "sleep"
               /\ UNCHANGED eerror

\* the backoff sleep is over: the loop of withRetries calls fn again
SleepDone ==
  /\ epc = "sleep"
  /\ epc' = "call"
  /\ ecalls' = ecalls + 1
  /\ etotal' = etotal + 1
  /\ einflight' = 1
  /\ UNCHANGED <<indexVars, apiVars, ecount, etexts, echunk, eoffset, eresults, attempt,
                 esleeps, eseen, ecaught, eerror, eentry, einput, estarted, ekinds>>

EmbedNext ==
  EmbedBatchCall \/ EmbedTextCall \/ ProviderAnswers \/ ProviderFails \/ SleepDone

InitEmbed ==
  /\ InitCommon
  /\ SECRET = TRUE
  /\ activeCallers = {} /\ drive = <<>> /\ upsertOnly = FALSE /\ script = FALSE
SpecEmbed == InitEmbed /\ [][EmbedNext]_vars

\* every provider call is answered or rejected in the end, and every backoff
\* timer fires
EmbedFairness ==
  /\ WF_vars(ProviderAnswers \/ ProviderFails)
  /\ WF_vars(SleepDone)
SpecEmbedLive == SpecEmbed /\ EmbedFairness

\* one caller: the calls are issued one at a time
Init ==
  /\ InitCommon
  /\ SECRET = TRUE
  /\ activeCallers = {"c1"}
  /\ script = FALSE
  /\ drive \in InitDrives
  /\ upsertOnly = (drive \in {<<>>, <<Doc(<<>>, 1, 1)>>})
Next == IndexNext
Spec == Init /\ [][Next]_vars

\* two callers of the same process, interleaved at the awaits
InitConc ==
  /\ InitCommon
  /\ SECRET = TRUE
  /\ activeCallers = Callers
  /\ drive \in {<<>>, <<Doc(<<>>, 1, 1)>>, <<Doc(<<rA1>>, 1, 1)>>}
  /\ upsertOnly = FALSE
  /\ script = FALSE
SpecConc == InitConc /\ [][Next]_vars

\* one script of src/scripts: test-index.ts (addEmbedding, loadIndex,
\* search) and the round trip of test-health.ts
InitScript ==
  /\ InitCommon
  /\ SECRET = TRUE
  /\ activeCallers = {"c1"}
  /\ script = TRUE
  /\ drive \in {<<>>, <<Doc(<<>>, 1, 1)>>, <<Doc(<<rZ>>, 1, 1)>>}
  /\ upsertOnly = (drive \in {<<>>, <<Doc(<<>>, 1, 1)>>})
SpecScript == InitScript /\ [][Next]_vars

\* ----------------------------------- api/create-node.ts, api/ingest-document.ts
MaxNodeCalls == 2

\* generateId(): an identifier no earlier invocation was given
NodeIds == <<"k1", "k2", "k3", "k4">>
EmbeddingIds == <<"e1", "e2", "e3", "e4">>

\* the contents callers hand to createNodeInternal
NodeContents == {<<>>, <<" ">>, <<"t">>, <<" ", "t", " ">>}

\* deterministicSummaryFromText: the digest opens with a fixed heading, so
\* it is never blank
deterministicSummaryFromText == <<"M", "V", "P">>

\* summaryOverride ?? deterministicSummaryFromText(text)
SummaryTexts == {deterministicSummaryFromText, <<" ">>, <<"t">>}

\* what embedText resolves with: the provider's array, which may be empty
EmbedTextResults == {<<1, 0>>, <<0, 1>>, <<>>}

\* createNodeInternal throws
CreateThrew(message) ==
  [NoCreated EXCEPT !.ended = "thrown", !.message = message]

\* (mutant) a failure after the node was saved is thrown on
EmbeddingFailedRethrown(node, message) == CreateThrew(message)

\* createNodeInternal, lines 748-769: the catch of step 5 and the return
EmbeddingFailed(node, message) ==
  [NoCreated EXCEPT !.ended = "returned", !.node = node,
                    !.embeddingStatus = "error", !.embeddingError = message]

\* createNodeInternal, lines 737 and 764-769
Embedded(node) ==
  [NoCreated EXCEPT !.ended = "returned", !.node = node, !.embeddingStatus = "embedded"]

\* the fields of CreateNodeInternalResult: node, filename, embeddingStatus,
\* embeddingError (the filename is a function of the node)
CreateNodeInternalResult(c) ==
  [node |-> c.node, embeddingStatus |-> c.embeddingStatus,
   embeddingError |-> c.embeddingError]

\* (created as any).indexStatus
maybeIndexStatus(result) ==
  IF "indexStatus" \in DOMAIN result THEN result.indexStatus ELSE "undefined"

\* ingestDocumentInternal, lines 379-433: step 6 once createNodeInternal has
\* ended, and the response
IngestResponse(c) ==
  IF c.ended = "thrown"
  THEN [NoIngested EXCEPT !.ended = "returned", !.status = "degraded",
                          !.summaryStatus = "error", !.indexStatus = "error",
                          !.warnings = <<c.message>>]
  ELSE LET result == CreateNodeInternalResult(c)
       IN  [NoIngested EXCEPT !.ended = "returned", !.status = "ok",
                              !.summaryStatus = "created",
                              !.indexStatus =
                                 IF maybeIndexStatus(result) = "undefined" THEN "embedded"
                                 ELSE maybeIndexStatus(result),
                              !.summaryNode = result.node]

\* ingestDocumentInternal, lines 379-381 and 415-433 with createSummaryNode false
IngestSkipped ==
  [NoIngested EXCEPT !.ended = "returned", !.status = "ok",
                     !.summaryStatus = "skipped", !.indexStatus = "skipped"]

\* createNodeInternal has ended with c: the caller has its result, or the
\* rejection; ingestDocumentInternal goes on through step 6 to its return
Finish(entry, c) ==
  /\ created' = c
  /\ npc' = "done"
  /\ ingested' = IF entry = "ingestDocumentInternal" THEN IngestResponse(c) ELSE ingested

\* createNodeInternal, lines 628-669: up to the first await
CnBegin(entry, content, n) ==
  IF content = <<>> THEN Finish(entry, CreateThrew("content is required")) /\ nnode' = ""
  ELSE IF Trim(content) = <<>>
  THEN Finish(entry, CreateThrew("content must be a non-empty string")) /\ nnode' = ""
  ELSE /\ npc' = "cn_save"
       /\ nnode' = NodeIds[n]
       /\ created' = NoCreated
       /\ ingested' = NoIngested

\* createNodeInternal(rawInput), called from the HTTP handler or the self-test
CreateNodeCall ==
  /\ npc \in {"idle", "done"}
  /\ ncount < MaxNodeCalls
  /\ ncount' = ncount + 1
  /\ nentry' = "createNodeInternal"
  /\ nembeds' = 0
  /\ nindexed' = 0
  /\ nstore' = drive
  /\ \E content \in NodeContents :
       /\ ninput' = [content |-> content, createSummaryNode |-> TRUE]
       /\ CnBegin("createNodeInternal", content, ncount + 1)
  /\ UNCHANGED <<nodes, relayVars, indexVars, embedVars>>

\* ingestDocumentInternal(req), lines 323-330: up to the first await
IngestCall ==
  /\ npc \in {"idle", "done"}
  /\ ncount < MaxNodeCalls
  /\ ncount' = ncount + 1
  /\ nentry' = "ingestDocumentInternal"
  /\ nembeds' = 0
  /\ nindexed' = 0
  /\ nstore' = drive
  /\ \E content \in SummaryTexts, createSummaryNode \in BOOLEAN :
       ninput' = [content |-> content, createSummaryNode |-> createSummaryNode]
  /\ npc' = "ig_save"
  /\ nnode' = ""
  /\ created' = NoCreated
  /\ ingested' = NoIngested
  /\ UNCHANGED <<nodes, relayVars, indexVars, embedVars>>

\* ingestDocumentInternal, lines 328-383: the file is resolved, checked and
\* downloaded and the SourceDocument record saved, any of which may throw;
\* then step 6 begins
IgSave ==
  /\ npc = "ig_save"
  /\ \/ /\ ingested' = [NoIngested EXCEPT !.ended = "thrown"]
        /\ npc' = "done"
        /\ UNCHANGED <<nnode, created>>
     \/ /\ ~ninput.createSummaryNode
        /\ ingested' = IngestSkipped
        /\ npc' = "done"
        /\ UNCHANGED <<nnode, created>>
     \/ /\ ninput.createSummaryNode
        /\ CnBegin(nentry, ninput.content, ncount)
  /\ UNCHANGED <<nentry, ninput, nodes, nembeds, nindexed, ncount, nstore,
                 relayVars, indexVars, embedVars>>

\* createNodeInternal, lines 691-712: saveJson settles; on success embedText
\* is called
CnSave ==
  /\ npc = "cn_save"
  /\ \/ /\ Finish(nentry, CreateThrew("Drive error while saving KnowledgeNode"))
        /\ UNCHANGED <<nodes, nembeds>>
     \/ /\ nodes' = Append(nodes, [id |-> nnode, content |-> Trim(ninput.content)])
        /\ nembeds' = nembeds + 1
        /\ npc' = "cn_embed"
        /\ UNCHANGED <<created, ingested>>
  /\ UNCHANGED <<nentry, ninput, nnode, nindexed, ncount, nstore,
                 relayVars, indexVars, embedVars>>

\* createNodeInternal, lines 712-735: embedText settles; the record is built
\* and parsed and handed to addEmbedding
CnEmbed ==
  /\ npc = "cn_embed"
  /\ \/ /\ Finish(nentry, EmbeddingFailed(nnode, "embedText"))
        /\ UNCHANGED <<nindexed, indexVars, embedVars>>
     \/ \E vector \in EmbedTextResults :
          LET candidate == Mk(EmbeddingIds[ncount], "knowledgeNode", nnode, vector)
          IN  IF ~zEmbeddingRecordOk(candidate)
              THEN /\ Finish(nentry, EmbeddingFailed(nnode, "zEmbeddingRecord"))
                   /\ UNCHANGED <<nindexed, indexVars, embedVars>>
              ELSE /\ Issue("c1", "addEmbedding", <<zEmbeddingRecordData(candidate)>>,
                            <<>>, 0, "ae_body")
                   /\ nindexed' = nindexed + 1
                   /\ npc' = "cn_index"
                   /\ UNCHANGED <<created, ingested>>
  /\ UNCHANGED <<nentry, ninput, nodes, nnode, nembeds, ncount, nstore, relayVars>>

\* createNodeInternal, lines 735-769: addEmbedding settles
CnIndexed ==
  /\ npc = "cn_index"
  /\ pc["c1"] = "done"
  /\ IF outcome["c1"].status = "ok"
     THEN Finish(nentry, Embedded(nnode))
     ELSE Finish(nentry, EmbeddingFailed(nnode, outcome["c1"].failedAt))
  /\ UNCHANGED <<nentry, ninput, nodes, nnode, nembeds, nindexed, ncount, nstore,
                 relayVars, indexVars, embedVars>>

NodeNext ==
  \/ CreateNodeCall
  \/ IngestCall
  \/ IgSave
  \/ CnSave
  \/ CnEmbed
  \/ CnIndexed
  \/ ElFind("c1")
  \/ ElGet("c1")
  \/ ElPopulate("c1")
  \/ ElInit("c1")
  \/ WFind("c1")
  \/ WWrite("c1")
  \/ AeBody("c1")

\* the API process: its calls of the index store are those of createNodeInternal
InitNode ==
  /\ InitCommon
  /\ SECRET = TRUE
  /\ activeCallers = {"c1"}
  /\ script = FALSE
  /\ drive \in {<<>>, <<Doc(<<>>, 1, 1)>>, <<Doc(<<rA1>>, 1, 1)>>}
  /\ upsertOnly = FALSE
SpecNode == InitNode /\ [][NodeNext]_vars

\* ------------------------------------------------------------ api/relay.ts
RELAY_MAX_RETRIES == 3     \* MAX_RETRIES of api/relay.ts
RETRY_DELAY_MS == 750
MaxRelayCalls == 2

\* the keys of ENDPOINT_MAP
ENDPOINT_MAP ==
  {"createNode", "logConversation", "retrieveKnowledge", "ingestDocument",
   "healthCheck", "relayOperation"}

\* the operations callers name
RelayOperations == {"createNode", "healthCheck", "deleteNode"}

\* what a fetch settles with: a response of some status, or a rejection
RelayStatuses == {200, 204, 400, 404, 429, 500, 503}
NetworkError == [kind |-> "network", status |-> 0]
Response(status) == [kind |-> "response", status |-> status]
RelayResponses == {Response(st) : st \in RelayStatuses} \cup {NetworkError}

\* Response.ok
ResOk(res) == res.kind = "response" /\ res.status >= 200 /\ res.status <= 299

\* line 438
RetriedStatus(res) ==
  res.kind = "response" /\ (res.status >= 500 \/ res.status = 429)

\* forwardToKEOrigin(operation, payload), lines 412-431: up to the first fetch
RelayCall ==
  /\ rpc \in {"idle", "returned", "thrown"}
  /\ rcount < MaxRelayCalls
  /\ rcount' = rcount + 1
  /\ rattempt' = 0
  /\ rsleeps' = <<>>
  /\ rseen' = <<>>
  /\ rlast' = ""
  /\ \E operation \in RelayOperations :
       /\ rop' = operation
       /\ IF ~SECRET
          THEN rpc' = "thrown" /\ rerror' = "Missing KEORIGIN_SHARED_SECRET" /\ rrequests' = 0
          ELSE IF operation \notin ENDPOINT_MAP
          THEN rpc' = "thrown" /\ rerror' = "Unsupported operation" /\ rrequests' = 0
          ELSE rpc' = "fetch" /\ rerror' = "" /\ rrequests' = 1
  /\ UNCHANGED <<SECRET, nodeVars, indexVars, embedVars>>

\* lines 424-453: the fetch settles.  The throw of line 446 is inside the try
\* of line 422, so the catch of line 447 takes it like a rejected fetch.
RelayResponds ==
  /\ rpc = "fetch"
  /\ \E res \in RelayResponses :
       /\ rseen' = Append(rseen, res)
       /\ IF ResOk(res)
          THEN /\ rpc' = "returned"
               /\ UNCHANGED <<rsleeps, rlast>>
          ELSE /\ rpc' = "sleep"
               /\ rsleeps' = Append(rsleeps, RETRY_DELAY_MS * Pow2(rattempt))
               /\ rlast' = IF res.kind = "network" THEN "fetch failed"
                           ELSE IF RetriedStatus(res) THEN "HTTP"
                           ELSE "Relay failed"
  /\ UNCHANGED <<SECRET, rop, rattempt, rrequests, rerror, rcount,
                 nodeVars, indexVars, embedVars>>

\* lines 441 and 453, then the loop test of line 421: the next fetch, or the
\* throw of line 457
RelaySleepDone ==
  /\ rpc = "sleep"
  /\ rattempt' = rattempt + 1
  /\ IF rattempt + 1 < RELAY_MAX_RETRIES
     THEN rpc' = "fetch" /\ rrequests' = rrequests + 1 /\ rerror' = rerror
     ELSE rpc' = "thrown" /\ rerror' = "Relay exhausted retries" /\ rrequests' = rrequests
  /\ UNCHANGED <<SECRET, rop, rsleeps, rseen, rlast, rcount, nodeVars, indexVars, embedVars>>

RelayNext == RelayCall \/ RelayResponds \/ RelaySleepDone

InitRelay ==
  /\ InitCommon
  /\ SECRET \in BOOLEAN
  /\ activeCallers = {} /\ drive = <<>> /\ upsertOnly = FALSE /\ script = FALSE
SpecRelay == InitRelay /\ [][RelayNext]_vars

\* ================================================================== claims
Done(p) == pc[p] = "done"
Ok(p) == Done(p) /\ outcome[p].status = "ok"
Mutating(p) == call[p].kind \in {"saveIndex", "addEmbedding"}
Holds(records, r) == \E i \in 1..Len(records) : records[i] = r

\* a saveIndex or addEmbedding call of p has failed on a store write
WriteFailed(p) ==
  /\ Done(p)
  /\ Mutating(p)
  /\ outcome[p].status = "error"
  /\ outcome[p].failedAt \in {"write", "init"}

\* C1 as stated: when the persistence write fails during saveIndex or
\* addEmbedding, the call fails and the cache (record list, norms, file
\* metadata) is exactly what it was before the call.
C1_CacheAsBeforeCall ==
  \A p \in Callers : WriteFailed(p) => indexCache = atStart[p]

\* C1 as amended: when the write fails the call fails and the cache is what
\* it was once the call's ensureIndexLoaded had returned, which is what it
\* was before the call whenever the cache was populated before the call; and
\* as long as the write is in flight the cache is not replaced.
C1_CacheIntactOnFailedWrite ==
  \A p \in Callers :
    /\ WriteFailed(p) =>
         /\ indexCache = frame[p].ensured
         /\ atStart[p].populated => indexCache = atStart[p]
    /\ pc[p] \in {"w_find", "w_write"} => indexCache = frame[p].ensured

C1_Witness ==
  \E p \in Callers :
    /\ WriteFailed(p)
    /\ outcome[p].failedAt = "write"
    /\ call[p].kind = "saveIndex"
    /\ atStart[p].populated
    /\ AllValid(call[p].records)
    /\ CacheRecords(indexCache) # ParseAll(call[p].records)

NoTwoShare(records) ==
  \A i, j \in 1..Len(records) :
    i # j => /\ records[i].id # records[j].id
             /\ ~(/\ records[i].sourceType = records[j].sourceType
                  /\ records[i].sourceId = records[j].sourceId)

\* C2: no two records of the index share an id, and no two share the pair
\* (sourceType, sourceId); stated here for the case the claim singles
\* out, an index that started empty and was written by addEmbedding only.
C2_UniqueIdentity ==
  (indexCache.populated /\ upsertOnly) => NoTwoShare(CacheRecords(indexCache))

AddRecord(p) == zEmbeddingRecordData(call[p].records[1])
AddOk(p) == call[p].kind = "addEmbedding" /\ Ok(p)
MatchesSome(records, r) == \E i \in 1..Len(records) : Matches(records[i], r)
ExactlyOneOf(records, r1, r2) == Holds(records, r1) # Holds(records, r2)
BothOf(records, r1, r2) == Holds(records, r1) /\ Holds(records, r2)

\* two addEmbedding calls, for records that differ in id and in pair, have
\* both returned
TwoAddsOk ==
  /\ AddOk("c1")
  /\ AddOk("c2")
  /\ ~Matches(AddRecord("c1"), AddRecord("c2"))

\* both read the same cache snapshot, which held a match for neither record
SameSnapshot ==
  /\ frame["c1"].snapshot = frame["c2"].snapshot
  /\ ~MatchesSome(frame["c1"].snapshot, AddRecord("c1"))
  /\ ~MatchesSome(frame["c1"].snapshot, AddRecord("c2"))

\* C3: when two concurrent addEmbedding calls for records of different
\* identity read the same cache snapshot and both return, the cache holds
\* exactly one of the two records and no stored document holds both (a lost
\* update); when the two calls run one after the other, the cache and a
\* stored document hold both.
C3_LostUpdate ==
  TwoAddsOk =>
    LET r1 == AddRecord("c1")
        r2 == AddRecord("c2")
    IN  /\ SameSnapshot =>
             /\ ExactlyOneOf(CacheRecords(indexCache), r1, r2)
             /\ \A k \in 1..Len(drive) : ~BothOf(drive[k].records, r1, r2)
             /\ \E k \in 1..Len(drive) : ExactlyOneOf(drive[k].records, r1, r2)
        /\ ~overlap =>
             /\ BothOf(CacheRecords(indexCache), r1, r2)
             /\ \E k \in 1..Len(drive) : BothOf(drive[k].records, r1, r2)

C3_Witness ==
  /\ TwoAddsOk
  /\ SameSnapshot
  /\ overlap
  /\ Len(drive) = 1
  /\ ExactlyOneOf(drive[1].records, AddRecord("c1"), AddRecord("c2"))
  /\ ExactlyOneOf(CacheRecords(indexCache), AddRecord("c1"), AddRecord("c2"))

\* C4: with calls issued one at a time, after every saveIndex or
\* addEmbedding that returns the record list of the cache is the record list
\* of the stored document.
C4_CacheEqualsStore ==
  \A p \in Callers :
    (Ok(p) /\ Mutating(p)) =>
      /\ Len(drive) = 1
      /\ CacheRecords(indexCache) = drive[1].records

C4_Witness ==
  \E p \in Callers :
    /\ Ok(p)
    /\ call[p].kind = "saveIndex"
    /\ atStart[p].populated
    /\ CacheRecords(indexCache) # <<>>
    /\ CacheRecords(indexCache) # CacheRecords(atStart[p])

\* p has loaded the index right after a saveIndex of its own that returned
LoadAfterSave(p) ==
  /\ Ok(p)
  /\ call[p].kind = "loadIndex"
  /\ last[p].kind = "saveIndex"
  /\ last[p].status = "ok"

\* C5 as stated: saveIndex(R) followed by loadIndex() returns a sequence
\* equal to R.
C5_LoadReturnsArgument ==
  \A p \in Callers : LoadAfterSave(p) => outcome[p].value = last[p].records

\* C5 as amended: saveIndex(R) followed by loadIndex() returns, in the order
\* of R, the validated form of each record of R (schemaVersion filled in
\* when missing, unknown keys stripped), whatever the index held before.
C5_LoadReturnsValidated ==
  \A p \in Callers :
    LoadAfterSave(p) =>
      /\ Len(outcome[p].value) = Len(last[p].records)
      /\ \A i \in 1..Len(last[p].records) :
           outcome[p].value[i] = zEmbeddingRecordData(last[p].records[i])

C5_Witness ==
  \E p \in Callers :
    /\ LoadAfterSave(p)
    /\ Len(last[p].records) = 2
    /\ last[p].records[1] # last[p].records[2]
    /\ outcome[p].value # last[p].records

\* C6: addEmbedding(record) called twice with the same record leaves exactly
\* one record with that id, and the record list is the same after the second
\* call as after the first.
C6_UpsertIdempotent ==
  \A p \in Callers :
    ( /\ AddOk(p)
      /\ last[p].kind = "addEmbedding"
      /\ last[p].status = "ok"
      /\ last[p].records = call[p].records )
    => LET records == CacheRecords(indexCache)
       IN  /\ Cardinality({i \in 1..Len(records) : records[i].id = AddRecord(p).id}) = 1
           /\ records = CacheRecords(atStart[p])

\* C7: all records of the index have vectors of the same length.
C7_OneDimension ==
  indexCache.populated =>
    \A i, j \in 1..Len(indexCache.embeddings) :
      Len(indexCache.embeddings[i].record.vector)
        = Len(indexCache.embeddings[j].record.vector)

Http429 == Err("http", 429, 0, "")

\* C8: when the provider answers every call of a withRetries with HTTP 429,
\* the call fails after exactly MAX_RETRIES + 1 provider calls and reports
\* MAX_RETRIES + 1 attempts.
C8_RetryTermination ==
  eseen = {Http429} =>
    /\ ecalls <= MAX_RETRIES + 1
    /\ attempt = MAX_RETRIES + 1 => epc = "failed"
    /\ epc = "failed" =>
         /\ ecalls = MAX_RETRIES + 1
         /\ eerror.kind = "provider"
         /\ eerror.attempts = MAX_RETRIES + 1

C8_Witness ==
  /\ epc = "failed"
  /\ eseen = {Http429}
  /\ ecalls = MAX_RETRIES + 1
  /\ Len(esleeps) = MAX_RETRIES

\* the failures C9 calls non-transient
NonTransient(err) ==
  \/ err.class = "http" /\ err.status >= 400 /\ err.status < 500 /\ err.status # 429
  \/ err.class \in {"lengthMismatch", "missingEmbedding"}

\* C9: a provider call that meets a non-transient failure (a 4xx status
\* other than 429, a malformed or length-mismatched response) fails at that
\* attempt: the failure is reported as not retryable, no sleep and no call
\* follows it, and when it is met at the first attempt exactly one call was
\* made.
C9_NonTransientFailsAtOnce ==
  NonTransient(ecaught) =>
    /\ epc = "failed"
    /\ eerror.kind = "provider"
    /\ eerror.retryable = FALSE
    /\ eerror.attempts = ecalls
    /\ Len(esleeps) = ecalls - 1
    /\ eseen = {ecaught} => (ecalls = 1 /\ esleeps = <<>>)

C9_Witness ==
  /\ epc = "failed"
  /\ ecaught = Err("http", 400, 0, "")
  /\ ecalls = 1
  /\ esleeps = <<>>

\* the failures C10 calls transient
Transient(err) ==
  \/ err.class = "http" /\ (err.status = 429 \/ (err.status >= 500 /\ err.status < 600))
  \/ err.class \in {"timeout", "connection"}

\* C10: a provider-call failure that is HTTP 429, a 5xx status, or a
\* connection or timeout failure is retried as long as fewer than
\* MAX_RETRIES retries have been made for the call.
C10_TransientRetried ==
  (Transient(ecaught) /\ attempt <= MAX_RETRIES) => epc # "failed"

\* C11: before the k-th retry of a provider call (k = 1..MAX_RETRIES) the
\* embedder sleeps RETRY_BASE_DELAY_MS * 2^(k-1) ms, that is 200, 400, 800;
\* there is no sleep before the first attempt and none after the final failed
\* attempt.
C11_BackoffSchedule ==
  /\ esleeps \in {<<>>, <<200>>, <<200, 400>>, <<200, 400, 800>>}
  /\ epc \in {"call", "done"} => Len(esleeps) = ecalls - 1
  /\ epc = "sleep" => Len(esleeps) = ecalls
  /\ (epc = "failed" /\ eerror.kind = "provider") => Len(esleeps) = ecalls - 1

C11_Witness ==
  /\ epc = "failed"
  /\ eerror.kind = "provider"
  /\ eerror.retryable
  /\ esleeps = <<200, 400, 800>>

\* every response the invocation accepted held one finite vector per input
AnsweredCorrectly == ekinds \subseteq {"ok"}

\* C12: for every list T of valid texts handed to embedBatch and a provider
\* that answers correctly, embedBatch returns exactly Len(T) vectors and the
\* i-th is the provider's vector for the i-th trimmed text, also across chunk
\* boundaries (lists of up to MaxTexts texts, chunks of MAX_BATCH_SIZE).
C12_VectorsInInputOrder ==
  (epc = "done" /\ eentry = "embedBatch" /\ AnsweredCorrectly) =>
    /\ Len(eresults) = Len(einput)
    /\ \A i \in 1..Len(einput) : eresults[i] = ProviderVector(Trim(einput[i]))

C12_Witness ==
  /\ epc = "done"
  /\ eentry = "embedBatch"
  /\ AnsweredCorrectly
  /\ Len(einput) > MAX_BATCH_SIZE
  /\ Len(estarted) >= 2
  /\ einput # etexts
  /\ \E i, j \in 1..Len(eresults) : eresults[i] # eresults[j]

\* the consecutive chunks of at most MAX_BATCH_SIZE texts
RECURSIVE ChunksOf(_)
ChunksOf(texts) ==
  IF Len(texts) <= MAX_BATCH_SIZE THEN <<texts>>
  ELSE <<SubSeq(texts, 1, MAX_BATCH_SIZE)>>
         \o ChunksOf(SubSeq(texts, MAX_BATCH_SIZE + 1, Len(texts)))

IsPrefix(s, t) == Len(s) <= Len(t) /\ SubSeq(t, 1, Len(s)) = s

\* an invocation that passed the input checks
PastChecks == epc \in {"call", "sleep", "done"} \/ (epc = "failed" /\ eerror.kind = "provider")

\* C13: with at most MAX_BATCH_SIZE texts embedBatch issues one provider call
\* (retries apart); otherwise one call per consecutive chunk of at most
\* MAX_BATCH_SIZE texts, in input order, the call for a chunk starting only
\* once the results of all chunks before it are in; at most one provider call
\* is in flight at any time.
C13_ChunksInOrder ==
  /\ einflight <= 1
  /\ PastChecks =>
       /\ IsPrefix(estarted, ChunksOf(etexts))
       /\ Len(etexts) <= MAX_BATCH_SIZE => Len(estarted) = 1
       /\ epc = "done" => estarted = ChunksOf(etexts)
       /\ epc # "done" => Len(eresults) = (Len(estarted) - 1) * MAX_BATCH_SIZE
       /\ (einflight = 1) = (epc = "call")

C13_Witness ==
  /\ epc = "done"
  /\ Len(estarted) = 2
  /\ Len(estarted[1]) = MAX_BATCH_SIZE
  /\ etotal > 2

BlankAt(texts) == {i \in 1..Len(texts) : Trim(texts[i]) = <<>>}

\* C14: embedBatch given an empty list, or a list in which some entry is
\* empty after trimming, fails with an error naming the first such index, and
\* embedText given a blank text fails; in both cases no provider call is made.
C14_InvalidInputRejected ==
  (eentry # "none" /\ (einput = <<>> \/ BlankAt(einput) # {})) =>
    /\ epc = "failed"
    /\ eerror.kind = "validation"
    /\ etotal = 0
    /\ estarted = <<>>
    /\ einflight = 0
    /\ (eentry = "embedBatch" /\ einput # <<>>) =>
         /\ eerror.index + 1 \in BlankAt(einput)
         /\ \A j \in BlankAt(einput) : eerror.index + 1 <= j

C14_Witness ==
  /\ eentry = "embedBatch"
  /\ epc = "failed"
  /\ Len(einput) = 3
  /\ BlankAt(einput) = {2, 3}
  /\ eerror.index = 1

\* C15: a provider response is accepted only if it holds exactly one vector
\* per input text and every vector is a sequence of finite numbers: embedBatch
\* returns vectors only from such responses.
C15_OnlyWellFormedAccepted ==
  epc = "done" =>
    /\ AnsweredCorrectly
    /\ \A i \in 1..Len(eresults) :
         \A j \in 1..Len(eresults[i]) : IsFinite(eresults[i][j])

IsValidRecord(r) == zEmbeddingRecordOk(r)

\* p's loadIndex populated the cache from a document the store already held
FirstLoad(p) ==
  /\ Ok(p)
  /\ call[p].kind = "loadIndex"
  /\ ~atStart[p].populated
  /\ ~frame[p].created

\* C16: when the stored document has a valid outer shape and some of its
\* records are structurally invalid, loadIndex succeeds and returns exactly
\* the valid records, in their stored relative order.
C16_LoadKeepsValidRecords ==
  \A p \in Callers :
    FirstLoad(p) =>
      /\ Len(drive) = 1
      /\ outcome[p].value = ParseAll(SelectSeq(drive[1].records, IsValidRecord))

C16_Witness ==
  \E p \in Callers :
    /\ FirstLoad(p)
    /\ Len(drive[1].records) = 3
    /\ outcome[p].value = <<rA1, rB2>>

\* the store holds a document whose outer shape is invalid
Corrupt == Len(drive) = 1 /\ drive[1].schemaVersion < 1

\* C17: while the stored document has an invalid outer shape, every step
\* leaves the stored document as it is and the cache unpopulated, and every
\* index call that ends (loadIndex, saveIndex, addEmbedding, search) fails.
C17_CorruptIndexUnusable ==
  [][Corrupt => /\ drive' = drive
                /\ ~indexCache'.populated
                /\ \A p \in Callers :
                     pc'[p] = "done" => outcome'[p].status = "error"]_vars

C17_Witness ==
  \E p \in Callers :
    /\ Corrupt
    /\ ~indexCache.populated
    /\ Done(p)
    /\ outcome[p].failedAt = "corrupt"
    /\ call[p].kind = "addEmbedding"
    /\ last[p].kind = "search"
    /\ last[p].status = "error"

\* the store holds one document with zero records, and so does the cache
EmptyInSync ==
  /\ Len(drive) = 1
  /\ drive[1].records = <<>>
  /\ indexCache.populated
  /\ indexCache.embeddings = <<>>
  /\ indexCache.fileMeta.createdAt = drive[1].createdAt

SearchEnded(p) == Done(p) /\ call[p].kind = "search" /\ indexCache.populated

\* C19: search fails whenever queryVector is empty, whenever its length
\* differs from the vector length of the first cached entry, and whenever its
\* norm is exactly zero.
C19_SearchRejectsInvalidQuery ==
  \A p \in Callers :
    SearchEnded(p) =>
      LET queryVector == call[p].queryVector
          embeddings == indexCache.embeddings
      IN  ( \/ queryVector = <<>>
            \/ (embeddings # <<>> /\ Len(queryVector) # Len(embeddings[1].record.vector))
            \/ SumSq(queryVector) = 0 )
          => outcome[p].status = "error"

Ranked(p) ==
  /\ Ok(p)
  /\ call[p].kind = "search"
  /\ Verdict(call[p].queryVector, indexCache.embeddings) = "rank"

\* the cosine of the query and the cached entry at position k, as the pair
\* (dot product, squared divisor) of the vectors taken at the length of the
\* query; there is none when the stored vector is shorter
CosineDefined(queryVector, entry) == Len(entry.record.vector) >= Len(queryVector)
CosineDot(queryVector, entry) ==
  LET RECURSIVE Sum(_)
      Sum(i) == IF i = 0 THEN 0 ELSE Sum(i - 1) + queryVector[i] * entry.record.vector[i]
  IN  Sum(Len(queryVector))
SameScore(s, t) == ~Greater(s, t) /\ ~Greater(t, s)

\* value is a ranking of embeddings for queryVector and topK: the results
\* are distinct entries of nonzero norm, each with its cosine, by
\* non-increasing score and, at equal scores, in cache order; no entry left
\* out ranks before one returned; and there are min(max(topK, 0), number of
\* entries of nonzero norm) of them
IsRanking(value, queryVector, topK, embeddings) ==
  LET nonzero == {k \in 1..Len(embeddings) : embeddings[k].norm # 0}
      wanted == IF topK < 0 THEN 0
                ELSE IF topK > Cardinality(nonzero) THEN Cardinality(nonzero) ELSE topK
      ScoreAt(k) == [nan |-> FALSE, dot |-> CosineDot(queryVector, embeddings[k]),
                     den2 |-> SumSq(queryVector) * SumSq(embeddings[k].record.vector)]
      Before(j, k) ==
        \/ Greater(ScoreAt(j), ScoreAt(k))
        \/ SameScore(ScoreAt(j), ScoreAt(k)) /\ j < k
  IN  /\ Len(value) = wanted
      /\ \E pos \in [1..Len(value) -> nonzero] :
           /\ \A i \in 1..Len(value) :
                /\ value[i].record = embeddings[pos[i]].record
                /\ CosineDefined(queryVector, embeddings[pos[i]])
                /\ value[i].score = ScoreAt(pos[i])
           /\ \A i, j \in 1..Len(value) : i < j => Before(pos[i], pos[j])
           /\ \A k \in nonzero :
                (\A i \in 1..Len(value) : pos[i] # k) =>
                  \A i \in 1..Len(value) : Before(pos[i], k)

C21_SearchRankingOneDimension ==
  \A p \in Callers :
    (Ranked(p) /\ \A k \in 1..Len(indexCache.embeddings) :
                    CosineDefined(call[p].queryVector, indexCache.embeddings[k])) =>
      IsRanking(outcome[p].value, call[p].queryVector, call[p].topK, indexCache.embeddings)

\* a score that is a number: equal to 1, and strictly between lo / 1000 and
\* hi / 1000 (for lo, hi >= 0)
IsOne(s) == ~s.nan /\ s.dot > 0 /\ s.dot * s.dot = s.den2
IsZero(s) == ~s.nan /\ s.dot = 0 /\ s.den2 > 0
Within(s, lo, hi) ==
  /\ ~s.nan
  /\ s.dot > 0
  /\ s.dot * s.dot * 1000000 > lo * lo * s.den2
  /\ s.dot * s.dot * 1000000 < hi * hi * s.den2

AddedOk(entry, r) ==
  entry.kind = "addEmbedding" /\ entry.status = "ok" /\ entry.records = <<r>>

\* the script has upserted rX, rY and rZ, in that order, into an index that
\* held no records, and its search([1, 0], 2) has returned
ThreeUpsertsThenSearch(p) ==
  /\ script
  /\ Len(trail) = 3
  /\ AddedOk(trail[1], rX)
  /\ AddedOk(trail[2], rY)
  /\ AddedOk(trail[3], rZ)
  /\ trail[1].snapshot = <<>>
  /\ Ok(p)
  /\ call[p].kind = "search"
  /\ call[p].queryVector = <<1, 0>>
  /\ call[p].topK = 2

\* C22: after three records of distinct identities with vectors [1, 0],
\* [0.9, 0.1] and [0, 1] have been upserted in that order into an empty
\* index, search([1, 0], 2) returns the first record and then the second,
\* the first with score 1 and the second with a score strictly between 0 and
\* 1, about 0.994.
C22_EndToEnd ==
  \A p \in Callers :
    ThreeUpsertsThenSearch(p) =>
      LET value == outcome[p].value
      IN  /\ Len(value) = 2
          /\ value[1].record = rX
          /\ IsOne(value[1].score)
          /\ value[2].record = rY
          /\ Within(value[2].score, 0, 1000)
          /\ Within(value[2].score, 993, 995)

C22_Witness ==
  \E p \in Callers :
    /\ ThreeUpsertsThenSearch(p)
    /\ CacheRecords(indexCache) = <<rX, rY, rZ>>
    /\ Len(outcome[p].value) = 2

\* p's search has returned, and the cache holds vectors of the length of the
\* query only
SearchedOk(p) ==
  /\ Ok(p)
  /\ call[p].kind = "search"
  /\ \A k \in 1..Len(indexCache.embeddings) :
       Len(indexCache.embeddings[k].record.vector) = Len(call[p].queryVector)

OrthogonalToAll(queryVector, embeddings) ==
  \A k \in 1..Len(embeddings) : CosineDot(queryVector, embeddings[k]) = 0

HoldsVector(embeddings, vec) ==
  \E k \in 1..Len(embeddings) : embeddings[k].record.vector = vec

\* C23: a query identical to a stored nonzero vector gets score 1 for that
\* record (which therefore comes first when topK >= 1), and a query
\* orthogonal to every stored vector gets score 0 for every record returned.
C23_CosineBoundary ==
  \A p \in Callers :
    SearchedOk(p) =>
      LET value == outcome[p].value
          queryVector == call[p].queryVector
      IN  /\ \A i \in 1..Len(value) :
               value[i].record.vector = queryVector => IsOne(value[i].score)
          /\ (HoldsVector(indexCache.embeddings, queryVector) /\ call[p].topK >= 1) =>
               (Len(value) >= 1 /\ IsOne(value[1].score))
          /\ OrthogonalToAll(queryVector, indexCache.embeddings) =>
               \A i \in 1..Len(value) : IsZero(value[i].score)

C23_Witness ==
  \E p \in Callers :
    /\ SearchedOk(p)
    /\ call[p].queryVector = <<9, 1>>
    /\ Len(outcome[p].value) = 1
    /\ outcome[p].value[1].record = rY
    /\ Len(indexCache.embeddings) = 3

C23_WitnessOrthogonal ==
  \E p \in Callers :
    /\ SearchedOk(p)
    /\ OrthogonalToAll(call[p].queryVector, indexCache.embeddings)
    /\ Len(outcome[p].value) = 1
    /\ outcome[p].value[1].record = rZ

\* position k of before holds a record with the id of r, or with its
\* (sourceType, sourceId)
SameIdentityAt(before, k, r) ==
  \/ before[k].id = r.id
  \/ before[k].sourceType = r.sourceType /\ before[k].sourceId = r.sourceId

\* after is before with r upserted
IsUpsertOf(after, before, r) ==
  LET hits == {k \in 1..Len(before) : SameIdentityAt(before, k, r)}
  IN  IF hits = {}
      THEN /\ Len(after) = Len(before) + 1
           /\ after[Len(after)] = r
           /\ \A k \in 1..Len(before) : after[k] = before[k]
      ELSE /\ Len(after) = Len(before)
           /\ \E first \in hits :
                /\ \A k \in hits : first <= k
                /\ after[first] = r
                /\ \A k \in 1..Len(before) : k # first => after[k] = before[k]

\* C24: with calls issued one at a time, addEmbedding(record) replaces, at
\* its position, the first cached record that matches on id or on
\* (sourceType, sourceId), and otherwise appends the record at the end; every
\* other record keeps its content and its position, and the count is
\* unchanged on a match and grows by one otherwise.
C24_UpsertFrame ==
  \A p \in Callers :
    AddOk(p) =>
      IsUpsertOf(CacheRecords(indexCache), CacheRecords(frame[p].ensured), AddRecord(p))

\* a record that matches the first cached record on id and the second on
\* (sourceType, sourceId) has replaced the first
C24_Witness ==
  \E p \in Callers :
    /\ AddOk(p)
    /\ CacheRecords(frame[p].ensured) = <<rA1, rB2>>
    /\ AddRecord(p) = rA2
    /\ CacheRecords(indexCache) = <<rA2, rB2>>

C24_WitnessAppend ==
  \E p \in Callers :
    /\ AddOk(p)
    /\ CacheRecords(frame[p].ensured) = <<rB1>>
    /\ CacheRecords(indexCache) = <<rB1, rA2>>

\* a saveIndex call of p has failed on a record that is not valid
SaveRejected(p) ==
  /\ Done(p)
  /\ call[p].kind = "saveIndex"
  /\ outcome[p].status = "error"
  /\ outcome[p].failedAt = "validation"

\* C25 as stated: if a record handed to saveIndex is invalid, saveIndex fails
\* and the call writes nothing to the store: the stored document and the
\* cache are after the call what they were before it.
C25_RejectedSaveChangesNothing ==
  \A p \in Callers :
    /\ (Done(p) /\ call[p].kind = "saveIndex" /\ ~AllValid(call[p].records)) =>
         outcome[p].status = "error"
    /\ SaveRejected(p) =>
         /\ frame[p].writes = <<>>
         /\ drive = frame[p].store
         /\ indexCache = atStart[p]

\* C25 as amended: if a record handed to saveIndex is invalid, saveIndex
\* fails and nothing of its argument is written or cached.  When the cache
\* was populated before the call, the stored document and the cache are
\* what they were before it; on a first touch the lazy load has populated the
\* cache from the store, and has written the empty document when the store
\* held none.
C25_RejectedSaveWritesNoRecord ==
  \A p \in Callers :
    /\ (Done(p) /\ call[p].kind = "saveIndex" /\ ~AllValid(call[p].records)) =>
         outcome[p].status = "error"
    /\ SaveRejected(p) =>
         /\ \A i \in 1..Len(frame[p].writes) : frame[p].writes[i].of = "init"
         /\ indexCache = frame[p].ensured
         /\ atStart[p].populated =>
              /\ frame[p].writes = <<>>
              /\ drive = frame[p].store
              /\ indexCache = atStart[p]
         /\ ~atStart[p].populated =>
              /\ indexCache.populated
              /\ IF frame[p].store = <<>>
                 THEN /\ Len(frame[p].writes) = 1
                      /\ Len(drive) = 1
                      /\ drive[1].records = <<>>
                      /\ CacheRecords(indexCache) = <<>>
                 ELSE /\ frame[p].writes = <<>>
                      /\ drive = frame[p].store

C25_Witness ==
  \E p \in Callers :
    /\ SaveRejected(p)
    /\ atStart[p].populated
    /\ CacheRecords(indexCache) # <<>>
    /\ Len(call[p].records) = 2
    /\ zEmbeddingRecordOk(call[p].records[1])

\* p's store write is acknowledged in this step
WriteLands(p) == pc[p] = "w_write" /\ pc'[p] \notin {"w_write", "done"}

ProbeAdded(n) ==
  /\ n >= 1
  /\ n <= Len(trail)
  /\ trail[n].kind = "addEmbedding"
  /\ trail[n].status = "ok"
  /\ ~MatchesSome(trail[n].snapshot, zEmbeddingRecordData(trail[n].records[1]))

\* p's loadIndex has returned right after such an addEmbedding
ProbeLoaded(p) ==
  /\ script
  /\ Ok(p)
  /\ call[p].kind = "loadIndex"
  /\ ProbeAdded(Len(trail))

\* p's saveIndex of the loaded list less the added record has returned
ProbeCleaned(p) ==
  /\ script
  /\ Ok(p)
  /\ call[p].kind = "saveIndex"
  /\ Len(trail) >= 2
  /\ trail[Len(trail)].kind = "loadIndex"
  /\ trail[Len(trail)].status = "ok"
  /\ ProbeAdded(Len(trail) - 1)

\* C27: the round trip of the health probe.  After an addEmbedding(r) that
\* returned, for r matching no record of the index, loadIndex() holds a
\* record with the id of r; and after a saveIndex of that list less the
\* records with the id of r, the records of the index, cached and stored,
\* are those it held before the addEmbedding.
C27_ProbeRoundTrip ==
  \A p \in Callers :
    /\ ProbeLoaded(p) =>
         \E i \in 1..Len(outcome[p].value) :
           outcome[p].value[i].id = trail[Len(trail)].records[1].id
    /\ ProbeCleaned(p) =>
         LET before == trail[Len(trail) - 1].snapshot
         IN  /\ call[p].records = before
             /\ CacheRecords(indexCache) = before
             /\ Len(drive) = 1
             /\ drive[1].records = before

C27_Witness ==
  \E p \in Callers :
    /\ ProbeCleaned(p)
    /\ trail[Len(trail) - 1].snapshot # <<>>
    /\ drive[1].records = trail[Len(trail) - 1].snapshot
    /\ frame[p].store[1].records = Append(trail[Len(trail) - 1].snapshot,
                                          trail[Len(trail) - 1].records[1])

ReadOnly(p) == call[p].kind \in {"loadIndex", "search"}

\* C28: no loadIndex or search removes a record that an addEmbedding which
\* returned has stored: in every interleaving, two callers that both touch
\* the index for the first time while the store holds no document included,
\* once an addEmbedding has returned and a read-only call has ended, the
\* cache and a stored document hold the record.
C28_ReadsKeepRecords ==
  \A p, q \in Callers :
    (p # q /\ AddOk(p) /\ Done(q) /\ ReadOnly(q)) =>
      /\ Holds(CacheRecords(indexCache), AddRecord(p))
      /\ \E k \in 1..Len(drive) : Holds(drive[k].records, AddRecord(p))

\* two mutating calls were in flight together and both have returned
BothMutatedOk ==
  /\ overlap
  /\ \A p \in Callers : Ok(p) /\ Mutating(p)

\* C29: under concurrent mutating calls, once every call in flight has
\* ended, the record list of the cache is the record list of the stored
\* document (of one of them, should the store hold two).
C29_CacheEqualsStoreAfterRace ==
  BothMutatedOk =>
    \E k \in 1..Len(drive) : drive[k].records = CacheRecords(indexCache)

\* the store writes a call made once the cache was loaded
OwnWrites(ws) ==
  LET Own(w) == w.of = "write"
  IN  SelectSeq(ws, Own)

\* C30: every addEmbedding that returns has made exactly one store write
\* once the cache was loaded, its last, and that write holds the complete
\* resulting list: every record the cache held, with the upserted record
\* replaced or appended; the stored document is that list.
C30_OneFullWrite ==
  \A p \in Callers :
    AddOk(p) =>
      LET ws == frame[p].writes
          own == OwnWrites(ws)
      IN  /\ Len(own) = 1
          /\ ws[Len(ws)].of = "write"
          /\ Len(ws) <= 2
          /\ Len(ws) = 2 => (~atStart[p].populated /\ frame[p].store = <<>>)
          /\ IsUpsertOf(own[1].records, frame[p].snapshot, AddRecord(p))
          /\ Len(own[1].records) >= Len(frame[p].snapshot)
          /\ \E k \in 1..Len(drive) : drive[k].records = own[1].records

\* the write of an upsert into a cache of two records holds three
C30_Witness ==
  \E p \in Callers :
    /\ AddOk(p)
    /\ atStart[p].populated
    /\ Len(frame[p].snapshot) = 2
    /\ Len(frame[p].writes) = 1
    /\ Len(frame[p].writes[1].records) = 3
    /\ drive[1].records = frame[p].writes[1].records

\* the positions of a call inside a store read or a store write
StorePositions == {"el_find", "el_get", "el_populate", "el_init", "w_find", "w_write"}

\* C31: with calls issued one at a time, a loadIndex or search issued when
\* the cache is populated never reads or writes the store, and leaves the
\* cache (records, norms, file metadata) and the stored documents as they
\* were, whether it returns or fails.
C31_ReadsTouchNothing ==
  \A p \in Callers :
    (ReadOnly(p) /\ atStart[p].populated) =>
      /\ pc[p] \notin StorePositions
      /\ frame[p].writes = <<>>
      /\ drive = frame[p].store
      /\ indexCache = atStart[p]

\* a search of a populated index has failed
C31_Witness ==
  \E p \in Callers :
    /\ Done(p)
    /\ call[p].kind = "search"
    /\ outcome[p].status = "error"
    /\ atStart[p].populated
    /\ CacheRecords(indexCache) # <<>>

\* C32: with calls issued one at a time, after a saveIndex or addEmbedding
\* that returned, the file metadata of the cache (schemaVersion, createdAt,
\* updatedAt) is the metadata of the document written to the store; the
\* cached updatedAt is the stored one.
C32_CachedMetaIsStoredMeta ==
  \A p \in Callers :
    (Ok(p) /\ Mutating(p)) =>
      /\ Len(drive) = 1
      /\ indexCache.fileMeta.schemaVersion = drive[1].schemaVersion
      /\ indexCache.fileMeta.createdAt = drive[1].createdAt
      /\ indexCache.fileMeta.updatedAt = drive[1].updatedAt

\* a multi-chunk embedBatch has thrown on a provider call
ChunkFailed ==
  /\ epc = "failed"
  /\ eerror.kind = "provider"
  /\ eentry = "embedBatch"
  /\ ~OneShot(etexts)

\* the chunk whose call failed (1-based)
FailedChunk == eoffset \div MAX_BATCH_SIZE + 1

\* C33: when the provider call for chunk k of a multi-chunk embedBatch fails
\* after its own retries, embedBatch throws: no vector of the chunks before
\* k is returned, no provider call is issued for a chunk after k, and the
\* call of each chunk has its own budget of MAX_RETRIES retries.
C33_ChunkFailureFailsAll ==
  /\ ecalls <= MAX_RETRIES + 1
  /\ ChunkFailed =>
       /\ estarted = SubSeq(ChunksOf(etexts), 1, FailedChunk)
       /\ echunk = ChunksOf(etexts)[FailedChunk]
       /\ Len(eresults) = eoffset
       /\ einflight = 0
       /\ eerror.attempts = ecalls
       /\ eerror.retryable => ecalls = MAX_RETRIES + 1
       /\ ~eerror.retryable => ecalls <= MAX_RETRIES + 1
       /\ etotal <= FailedChunk * (MAX_RETRIES + 1)
       /\ etotal >= FailedChunk - 1 + ecalls

\* the call of the second chunk has used its whole budget after the call of
\* the first chunk had been retried, and the vectors of the first chunk are
\* not returned
C33_Witness ==
  /\ ChunkFailed
  /\ FailedChunk = 2
  /\ Len(eresults) = MAX_BATCH_SIZE
  /\ eerror.retryable
  /\ ecalls = MAX_RETRIES + 1
  /\ etotal > MAX_RETRIES + 2

\* the call of the first chunk has failed and none was issued for the second
C33_WitnessFirstChunk ==
  /\ ChunkFailed
  /\ FailedChunk = 1
  /\ Len(estarted) = 1
  /\ Len(ChunksOf(etexts)) = 2

\* ceil(n / MAX_BATCH_SIZE)
ChunkCount(n) == (n + MAX_BATCH_SIZE - 1) \div MAX_BATCH_SIZE

Running == epc \in {"call", "sleep"}
Ended == epc \in {"done", "failed"}

\* C34: provided every provider call is answered in the end, every
\* embedBatch invocation ends, by returning or by throwing, and it makes at
\* most ceil(len(texts) / MAX_BATCH_SIZE) * (MAX_RETRIES + 1) provider calls.
C34_EmbedTerminates ==
  /\ [](etotal <= ChunkCount(Len(etexts)) * (MAX_RETRIES + 1))
  /\ Running ~> Ended

\* an invocation has returned after the largest number of provider calls
C34_Witness ==
  /\ epc = "done"
  /\ Len(etexts) = 3
  /\ etotal = ChunkCount(3) * (MAX_RETRIES + 1)

\* some stored document holds a record that zEmbeddingRecord rejects
StoresMalformed(files) ==
  \E k \in 1..Len(files) : ~AllValid(files[k].records)

\* C35: with calls issued one at a time, the records that a load dropped as
\* malformed are not in the cache, stay in the stored document as long as
\* no write has been acknowledged, and are in no stored document once a
\* saveIndex or addEmbedding has returned: that write stored the list of the
\* cache, which holds none of them.
C35_DroppedRecordsDeletedByWrite ==
  /\ indexCache.populated => AllValid(CacheRecords(indexCache))
  /\ \A p \in Callers :
       /\ (pc[p] # "idle" /\ frame[p].writes = <<>>) => drive = frame[p].store
       /\ (Ok(p) /\ Mutating(p)) =>
            /\ ~StoresMalformed(drive)
            /\ Len(drive) = 1
            /\ drive[1].records = CacheRecords(indexCache)

\* an addEmbedding has returned on an index whose document held a malformed
\* record, and the record is gone from the store
C35_Witness ==
  \E p \in Callers :
    /\ AddOk(p)
    /\ StoresMalformed(frame[p].store)
    /\ ~StoresMalformed(drive)
    /\ Len(drive[1].records) = 2

\* a loadIndex has returned without the malformed record, which is still
\* stored
C35_WitnessKept ==
  \E p \in Callers :
    /\ Ok(p)
    /\ call[p].kind = "loadIndex"
    /\ StoresMalformed(drive)
    /\ Len(outcome[p].value) = 2

\* the positions of a call past its ensureIndexLoaded
BodyPositions == {"li_body", "sv_body", "sv_swap", "ae_body", "se_body"}

\* p's call has failed on the write of the first empty index
InitWriteFailed(p) ==
  /\ Done(p)
  /\ outcome[p].status = "error"
  /\ outcome[p].failedAt = "init"

\* C36: with calls issued one at a time, when the write of the first empty
\* document fails on the first touch of a store that holds none, the call
\* fails and the cache stays unset; a call issued while the cache is unset
\* reads the store before anything else.
C36_FailedInitLeavesCacheUnset ==
  \A p \in Callers :
    /\ InitWriteFailed(p) =>
         /\ ~indexCache.populated
         /\ ~atStart[p].populated
         /\ frame[p].store = <<>>
    /\ pc[p] \in {"w_find", "w_write"} /\ WriteOf(frame[p]) = "init" => ~indexCache.populated
    /\ pc[p] \in BodyPositions => indexCache.populated
    /\ (pc[p] \notin {"idle", "done"} /\ last[p].failedAt = "init") =>
         /\ ~atStart[p].populated
         /\ frame[p].store = <<>>

\* the call after one that failed on the first write is reading the store
C36_Witness ==
  \E p \in Callers :
    /\ last[p].status = "error"
    /\ last[p].failedAt = "init"
    /\ pc[p] = "el_find"
    /\ ~indexCache.populated

\* the square of the Euclidean norm of vec
NormSquared(vec) ==
  LET RECURSIVE Sum(_)
      Sum(i) == IF i = 0 THEN 0 ELSE Sum(i - 1) + vec[i] * vec[i]
  IN  Sum(Len(vec))

AllZero(vec) == \A i \in 1..Len(vec) : vec[i] = 0

\* C37: in every reachable state the norm of each cached entry is the
\* Euclidean norm of the vector the entry holds (compared by their squares),
\* zero exactly when all components are zero; a record that replaced another
\* has its own norm.
C37_NormOfCurrentVector ==
  indexCache.populated =>
    \A i \in 1..Len(indexCache.embeddings) :
      LET entry == indexCache.embeddings[i]
      IN  /\ entry.norm = NormSquared(entry.record.vector)
          /\ (entry.norm = 0) = AllZero(entry.record.vector)

\* a record has replaced one whose vector had another norm
C37_Witness ==
  \E p \in Callers :
    /\ AddOk(p)
    /\ frame[p].snapshot = <<rA1, rB2>>
    /\ indexCache.embeddings[1].record = rA2
    /\ indexCache.embeddings[1].norm = 4

\* the KnowledgeNodes folder holds the node of the invocation in hand
NodePersisted ==
  \E i \in 1..Len(nodes) :
    nodes[i] = [id |-> nnode, content |-> Trim(ninput.content)]

\* embedText was called and no addEmbedding of the invocation returned
EmbeddingOrIndexingFailed ==
  /\ nembeds = 1
  /\ nindexed = 0 \/ outcome["c1"].status # "ok"

SaveOfNodeFailed ==
  /\ created.ended = "thrown"
  /\ created.message = "Drive error while saving KnowledgeNode"

\* C38: when saving the KnowledgeNode fails, createNodeInternal throws, having
\* called neither embedText nor addEmbedding and with the index files as they
\* were, and no node is stored; when embedText was called and embedding or
\* indexing failed, createNodeInternal does not throw: it returns the node with
\* embeddingStatus "error" and a message, and the node is in the folder.
C38_CreateNodeFailureModes ==
  /\ SaveOfNodeFailed =>
       /\ nembeds = 0
       /\ nindexed = 0
       /\ drive = nstore
       /\ ~NodePersisted
  /\ (npc = "done" /\ EmbeddingOrIndexingFailed) =>
       /\ created.ended = "returned"
       /\ created.node = nnode
       /\ created.embeddingStatus = "error"
       /\ created.embeddingError # ""
       /\ NodePersisted

\* addEmbedding threw after the node was saved, and createNodeInternal returned
C38_Witness ==
  /\ npc = "done"
  /\ nentry = "createNodeInternal"
  /\ nindexed = 1
  /\ outcome["c1"].status = "error"
  /\ created.embeddingStatus = "error"
  /\ NodePersisted

\* the save of the node failed and createNodeInternal threw
C38_WitnessSaveFailed ==
  /\ npc = "done"
  /\ nentry = "createNodeInternal"
  /\ SaveOfNodeFailed
  /\ Len(nstore) > 0

\* the index holds an embedding record of the summary node
SummaryRecordAdded ==
  /\ nindexed = 1
  /\ outcome["c1"].status = "ok"
  /\ \E f \in 1..Len(drive) : \E i \in 1..Len(drive[f].records) :
       /\ drive[f].records[i].sourceType = "knowledgeNode"
       /\ drive[f].records[i].sourceId = nnode

\* creating the summary node failed, or embedding or indexing it did
SummaryFailed ==
  \/ created.ended = "thrown"
  \/ created.ended = "returned" /\ EmbeddingOrIndexingFailed

\* C39: a response of ingestDocumentInternal that asked for a summary node
\* has indexStatus "error" and status "degraded" whenever creating, embedding
\* or indexing the summary node failed, and has indexStatus "embedded" only
\* when the embedding record of the summary node was added to the index.
C39_IngestReportsIndexing ==
  ( /\ npc = "done"
    /\ nentry = "ingestDocumentInternal"
    /\ ingested.ended = "returned"
    /\ ninput.createSummaryNode ) =>
      /\ SummaryFailed =>
           ingested.indexStatus = "error" /\ ingested.status = "degraded"
      /\ ingested.indexStatus = "embedded" => SummaryRecordAdded

\* a response that is not OK, not 5xx and not 429
NotRetriedStatus(res) ==
  res.kind = "response" /\ ~ResOk(res) /\ ~RetriedStatus(res)

\* C40: after a response whose status is not OK, not 5xx and not 429,
\* forwardToKEOrigin sends no further request and fails; a call sends at most
\* MAX_RETRIES (3) requests, and one that fails before its third request came
\* back has met such a response.
C40_ClientErrorNotRetried ==
  /\ \A i \in 1..Len(rseen) :
       NotRetriedStatus(rseen[i]) => rrequests = i /\ rpc \in {"sleep", "thrown"}
  /\ rrequests <= RELAY_MAX_RETRIES
  /\ (rpc = "thrown" /\ Len(rseen) > 0 /\ Len(rseen) < RELAY_MAX_RETRIES) =>
       NotRetriedStatus(rseen[Len(rseen)])

\* the half of C40 about 5xx, 429 and network errors: each is followed by
\* another request until MAX_RETRIES requests were sent
C40_RetriedUpToMax ==
  /\ rrequests <= RELAY_MAX_RETRIES
  /\ rpc = "thrown" /\ Len(rseen) > 0 => Len(rseen) = RELAY_MAX_RETRIES
  /\ rpc = "returned" => ResOk(rseen[Len(rseen)])

====
